---- MODULE Spec2Model ----
(***************************************************************************)
(* Review Manager: the Firestore data-access layer (src/lib/db.ts, the     *)
(* later lineage at lines 169-537, which is the one the components         *)
(* import), the ReviewItem reviewer editor, the RoomSettings editor and    *)
(* the mention formatter of lib/googleChat.ts with its member-id cache.    *)
(*                                                                         *)
(* The store is the two Firestore collections "reviews" and "rooms".  A    *)
(* collection is a function whose DOMAIN is the set of existing document   *)
(* ids.  Every exported db function is one action: the awaited steps of    *)
(* one call run to completion before the next call starts (the sequential  *)
(* reading of the operations).  Staleness of a client is modelled by the   *)
(* page's copy of the active reviews (pageReviews), refreshed only by the  *)
(* onSnapshot callback.                                                    *)
(***************************************************************************)
EXTENDS Integers, Sequences, FiniteSets, TLC

VARIABLES
    reviews,            \* collection "reviews": id -> Review document
    now,                \* the server clock behind serverTimestamp()
    nextId,             \* the next document id addDoc generates
    purged,             \* documents removed by deleteDoc (id and last content)
    call,               \* the last completed db call and its outcome
    pageReviews,        \* RoomPage state `reviews`: last onSnapshot result
    editId,             \* the ReviewItem whose reviewer editor is open (0: none)
    selectedReviewers,  \* ReviewItem state `selectedReviewers` (insertion order)
    listed,             \* the last query result handed to the client, in order
    rooms,              \* collection "rooms": slug -> Room document
    room,               \* RoomSettings prop `room` (<<>> when not mounted)
    allowedUsers,       \* RoomSettings state `allowedUsers`
    user,               \* the signed-in user's email of the settings client
    creating,           \* createRoom calls between their getDoc and their setDoc
    userCache,          \* googleChat.ts userCache: space -> (email -> userId)
    cacheExpiry,        \* googleChat.ts cacheExpiry: space -> time in ms
    storedAt,           \* the time each userCache entry was set
    clock,              \* Date.now() of the notifying client
    mention,            \* the last completed formatMentions call
    notify,             \* the last completed notifying handler and its dispatch
    route,              \* the last request the /api/notify route served
    ping,               \* the stuck flags of the last composed ping or summary
    pageError,          \* RoomPage state `error`
    subscription,       \* the room whose active reviews RoomPage listens to
    inflight            \* db calls of concurrent clients between their awaits

vars == <<reviews, now, nextId, purged, call, pageReviews, editId,
          selectedReviewers, listed, rooms, room, allowedUsers, user,
          creating, userCache, cacheExpiry, storedAt, clock, mention,
          notify, route, ping, pageError, subscription, inflight>>

reviewVars == <<reviews, now, nextId, purged, call>>
itemVars   == <<pageReviews, editId, selectedReviewers, listed>>
roomVars   == <<rooms, room, allowedUsers, user>>
createVars == <<creating>>
mentionVars == <<userCache, cacheExpiry, storedAt, clock, mention>>
notifyVars == <<notify, route, ping>>
accessVars == <<pageError, subscription>>
clientVars == <<notifyVars, accessVars, inflight>>

----------------------------------------------------------------------------
(* Bounds of the model *)

MaxReviews == 1         \* reviews addReview may create in Spec
MaxClock == 3           \* server writes in one run of Spec
MaxMentions == 2        \* assignees chosen in AddReviewForm

MaxQueueReviews == 11  \* reviews stored at the start of SpecQueue
MaxQueueCalls == 3     \* updateReviewStatus calls in one run of SpecQueue

MaxBulkLines == 1      \* lines of one bulk upsert
MaxManual == 1         \* emails typed or members selected when creating a room

(* Program constant: the retention cap of the done and deleted queues *)
QueueCap == 10

Emails == {"a@x.com", "b@x.com"}
Slugs == {"team-a", "team-b"}
PageSlug == "team-a"    \* the room the modelled RoomPage shows
TerminalStatus == {"done", "deleted"}
AssigneeStatus == {"pending", "reviewed"}

----------------------------------------------------------------------------
(* Helpers on sequences *)

Range(s) == {s[i] : i \in 1..Len(s)}

RECURSIVE FilterSeq(_, _)
\* Array.prototype.filter with the test "element is in keep"
FilterSeq(s, keep) ==
    IF s = <<>> THEN <<>>
    ELSE IF Head(s) \in keep THEN <<Head(s)>> \o FilterSeq(Tail(s), keep)
    ELSE FilterSeq(Tail(s), keep)

\* all sequences over S without repetition, of length at most n
UniqueSeqs(S, n) ==
    UNION {{s \in [1..k -> S] : \A i, j \in 1..k : i # j => s[i] # s[j]} : k \in 0..n}

\* the assignee lists a caller can pass: distinct emails, any status
AssigneeLists ==
    {a \in UNION {[1..k -> [email : Emails, status : AssigneeStatus]] : k \in 0..MaxMentions} :
        \A i, j \in 1..Len(a) : i # j => a[i].email # a[j].email}

AssigneeEmails(assignees) == {assignees[i].email : i \in 1..Len(assignees)}

\* Map(assignees.map(a => [a.email, a.status])).get(email): the last entry wins
StatusOf(assignees, email) ==
    LET idx == {i \in 1..Len(assignees) : assignees[i].email = email}
    IN  assignees[CHOOSE i \in idx : \A j \in idx : j <= i].status

----------------------------------------------------------------------------
(* The last completed call: op, the document id, the email or status       *)
(* argument, the outcome ("ok", "true", "false" for a returned value,      *)
(* "void" for a silent return, "NotFound" for the thrown error), whether   *)
(* the call repeats the previous one, and how many documents it deleted.   *)

NoCall == [op |-> "none", id |-> 0, arg |-> "", out |-> "", again |-> FALSE, evicted |-> 0]

Called(op, id, arg, out, evicted) ==
    [op |-> op, id |-> id, arg |-> arg, out |-> out,
     again |-> (call.op = op /\ call.id = id /\ call.arg = arg),
     evicted |-> evicted]

Exists(id) == id \in DOMAIN reviews

\* ids a caller may address: the generated ones and one never generated yet
AddressableIds == 1..nextId

----------------------------------------------------------------------------
(* src/lib/db.ts: the review operations *)

\* serverTimestamp(): the server's time of the write, later than every earlier write
serverTimestamp == now + 1

\* addReview: the document addDoc stores
NewReview(roomId, createdBy, assignees) ==
    [roomId |-> roomId, title |-> "PR1", link |-> "http://x/1",
     status |-> "active", createdBy |-> createdBy,
     assignees |-> assignees, reviewedBy |-> <<>>, approvedBy |-> <<>>,
     createdAt |-> serverTimestamp, updatedAt |-> serverTimestamp]

\* mutant of PendingAssignees: the first mention starts as reviewed
PendingAssigneesFirstReviewed(mentions) ==
    [i \in 1..Len(mentions) |->
        [email |-> mentions[i], status |-> IF i = 1 THEN "reviewed" ELSE "pending"]]

\* AddReviewForm.handleSubmit: mentions.map(email => ({email, status: "pending"}))
PendingAssignees(mentions) ==
    [i \in 1..Len(mentions) |-> [email |-> mentions[i], status |-> "pending"]]

\* AddReviewForm.handleSubmit followed by addReview; handleMentionAdd keeps
\* mentions free of repetitions
handleSubmit(roomId, userEmail, mentions) ==
    /\ nextId <= MaxReviews
    /\ reviews' = reviews @@ (nextId :> NewReview(roomId, userEmail, PendingAssignees(mentions)))
    /\ nextId' = nextId + 1
    /\ now' = serverTimestamp
    /\ call' = Called("addReview", nextId, "", "ok", 0)
    /\ UNCHANGED <<purged, itemVars, createVars, mentionVars, clientVars, roomVars>>

\* where("roomId","==",roomId), where("status","==",status)
Matching(store, roomId, status) ==
    {i \in DOMAIN store : store[i].roomId = roomId /\ store[i].status = status}

\* mutant of OrderedBefore: the query orders by updatedAt descending
OrderedBeforeDesc(store, i, j) ==
    \/ store[i].updatedAt > store[j].updatedAt
    \/ store[i].updatedAt = store[j].updatedAt /\ i > j

\* orderBy("updatedAt","asc"): document i comes before document j (Firestore
\* orders documents with equal field values by document id)
OrderedBefore(store, i, j) ==
    \/ store[i].updatedAt < store[j].updatedAt
    \/ store[i].updatedAt = store[j].updatedAt /\ i < j

\* the 0-based index of document i in the query result over ids
QueryIndex(store, ids, i) == Cardinality({j \in ids : OrderedBefore(store, j, i)})

\* mutant of OldestExcess: the queue is cut only above eleven
OldestExcessLax(store, ids) ==
    IF Cardinality(ids) > QueueCap + 1
    THEN {i \in ids : QueryIndex(store, ids, i) < Cardinality(ids) - QueueCap}
    ELSE {}

\* if (length > 10) slice(0, length - 10)
OldestExcess(store, ids) ==
    IF Cardinality(ids) > QueueCap
    THEN {i \in ids : QueryIndex(store, ids, i) < Cardinality(ids) - QueueCap}
    ELSE {}

\* the ids manageDeletedReviewsQueue passes to deleteDoc
manageDeletedReviewsQueue(store, roomId) ==
    OldestExcess(store, Matching(store, roomId, "deleted"))

\* the ids manageDoneReviewsQueue passes to deleteDoc
manageDoneReviewsQueue(store, roomId) ==
    OldestExcess(store, Matching(store, roomId, "done"))

\* one call of updateReviewStatus: the status write followed by the queue
\* maintenance of the new status, or the NotFound error
updateReviewStatusCall(id, status) ==
    IF ~Exists(id)
    THEN /\ call' = Called("updateReviewStatus", id, status, "NotFound", 0)
         /\ UNCHANGED <<reviews, now, nextId, purged>>
    ELSE LET written == [reviews EXCEPT ![id].status = status,
                                        ![id].updatedAt = serverTimestamp]
             roomId == reviews[id].roomId
             toDelete == IF status = "deleted"
                         THEN manageDeletedReviewsQueue(written, roomId)
                         ELSE manageDoneReviewsQueue(written, roomId)
         IN  /\ reviews' = [i \in (DOMAIN written) \ toDelete |-> written[i]]
             /\ purged' = purged \cup
                    {[id |-> i, roomId |-> written[i].roomId,
                      status |-> written[i].status,
                      updatedAt |-> written[i].updatedAt] : i \in toDelete}
             /\ now' = serverTimestamp
             /\ call' = Called("updateReviewStatus", id, status, "ok",
                               Cardinality(toDelete))
             /\ UNCHANGED nextId

\* updateReviewStatus called on its own (handleDelete, and the closing of
\* a review by another client)
updateReviewStatus(id, status) ==
    /\ updateReviewStatusCall(id, status)
    /\ UNCHANGED <<itemVars, createVars, mentionVars, clientVars, roomVars>>

\* mutant of resetAssignees: only updatedAt is touched, the statuses stay
resetAssigneesKept(assignees) == assignees

\* review.assignees.map(a => ({...a, status: "pending"}))
resetAssignees(assignees) ==
    [i \in 1..Len(assignees) |-> [assignees[i] EXCEPT !.status = "pending"]]

\* one call of markReviewAsUpdated
markReviewAsUpdatedCall(id) ==
    IF ~Exists(id)
    THEN /\ call' = Called("markReviewAsUpdated", id, "", "void", 0)
         /\ UNCHANGED <<reviews, now, nextId, purged>>
    ELSE /\ reviews' = [reviews EXCEPT
                ![id].assignees = resetAssignees(reviews[id].assignees),
                ![id].updatedAt = serverTimestamp]
         /\ now' = serverTimestamp
         /\ call' = Called("markReviewAsUpdated", id, "", "ok", 0)
         /\ UNCHANGED <<nextId, purged>>

\* markReviewAsUpdated called on its own
markReviewAsUpdated(id) ==
    /\ markReviewAsUpdatedCall(id)
    /\ UNCHANGED <<itemVars, createVars, mentionVars, clientVars, roomVars>>

\* review.assignees.map(a => a.email === userEmail ? {...a, status: "reviewed"} : a)
updatedAssignees(assignees, userEmail) ==
    [i \in 1..Len(assignees) |->
        IF assignees[i].email = userEmail
        THEN [assignees[i] EXCEPT !.status = "reviewed"]
        ELSE assignees[i]]

\* list.includes(userEmail) ? list : [...list, userEmail]
AppendIfAbsent(list, userEmail) ==
    IF userEmail \in Range(list) THEN list ELSE Append(list, userEmail)

\* mutant of updatedReviewedBy: the email is appended without the includes test
updatedReviewedByAlways(reviewedBy, userEmail) == Append(reviewedBy, userEmail)

updatedReviewedBy(reviewedBy, userEmail) == AppendIfAbsent(reviewedBy, userEmail)

updatedApprovedBy(approvedBy, userEmail) == AppendIfAbsent(approvedBy, userEmail)

markAsReviewed(id, userEmail) ==
    IF ~Exists(id)
    THEN /\ call' = Called("markAsReviewed", id, userEmail, "void", 0)
         /\ UNCHANGED <<reviews, now, nextId, purged, itemVars, createVars, mentionVars, clientVars, roomVars>>
    ELSE /\ reviews' = [reviews EXCEPT
                ![id].assignees = updatedAssignees(reviews[id].assignees, userEmail),
                ![id].reviewedBy = updatedReviewedBy(reviews[id].reviewedBy, userEmail),
                ![id].updatedAt = serverTimestamp]
         /\ now' = serverTimestamp
         /\ call' = Called("markAsReviewed", id, userEmail, "ok", 0)
         /\ UNCHANGED <<nextId, purged, itemVars, createVars, mentionVars, clientVars, roomVars>>

markAsApproved(id, userEmail) ==
    IF ~Exists(id)
    THEN /\ call' = Called("markAsApproved", id, userEmail, "void", 0)
         /\ UNCHANGED <<reviews, now, nextId, purged, itemVars, createVars, mentionVars, clientVars, roomVars>>
    ELSE /\ reviews' = [reviews EXCEPT
                ![id].approvedBy = updatedApprovedBy(reviews[id].approvedBy, userEmail),
                ![id].updatedAt = serverTimestamp]
         /\ now' = serverTimestamp
         /\ call' = Called("markAsApproved", id, userEmail, "ok", 0)
         /\ UNCHANGED <<nextId, purged, itemVars, createVars, mentionVars, clientVars, roomVars>>

\* mutant of WriteAssignees: the write leaves updatedAt as it is
WriteAssigneesNoTouch(op, id, assignees) ==
    IF ~Exists(id)
    THEN /\ call' = Called(op, id, "", "NotFound", 0)
         /\ UNCHANGED <<reviews, now, nextId, purged>>
    ELSE /\ reviews' = [reviews EXCEPT ![id].assignees = assignees]
         /\ now' = serverTimestamp
         /\ call' = Called(op, id, "", "ok", 0)
         /\ UNCHANGED <<nextId, purged>>

\* the write of updateReviewAssignees; op names the caller's entry point
WriteAssignees(op, id, assignees) ==
    IF ~Exists(id)
    THEN /\ call' = Called(op, id, "", "NotFound", 0)
         /\ UNCHANGED <<reviews, now, nextId, purged>>
    ELSE /\ reviews' = [reviews EXCEPT ![id].assignees = assignees,
                                       ![id].updatedAt = serverTimestamp]
         /\ now' = serverTimestamp
         /\ call' = Called(op, id, "", "ok", 0)
         /\ UNCHANGED <<nextId, purged>>

updateReviewAssignees(id, assignees) ==
    /\ WriteAssignees("updateReviewAssignees", id, assignees)
    /\ UNCHANGED <<itemVars, createVars, mentionVars, clientVars, roomVars>>

\* mutant of filteredAssignees: the filter test is inverted
filteredAssigneesInverted(assignees, userEmail) ==
    FilterSeq(assignees, {a \in Range(assignees) : a.email = userEmail})

\* review.assignees.filter(a => a.email !== userEmail)
filteredAssignees(assignees, userEmail) ==
    FilterSeq(assignees, {a \in Range(assignees) : a.email # userEmail})

removeReviewer(id, userEmail) ==
    IF ~Exists(id)
    THEN /\ call' = Called("removeReviewer", id, userEmail, "NotFound", 0)
         /\ UNCHANGED <<reviews, now, nextId, purged, itemVars, createVars, mentionVars, clientVars, roomVars>>
    ELSE LET remaining == filteredAssignees(reviews[id].assignees, userEmail)
         IN  /\ reviews' = [reviews EXCEPT ![id].assignees = remaining,
                                            ![id].updatedAt = serverTimestamp]
             /\ now' = serverTimestamp
             /\ call' = Called("removeReviewer", id, userEmail,
                               IF Len(remaining) = 0 THEN "true" ELSE "false", 0)
             /\ UNCHANGED <<nextId, purged, itemVars, createVars, mentionVars, clientVars, roomVars>>

----------------------------------------------------------------------------
(* RoomPage subscription and the ReviewItem reviewer editor *)

\* mutant of CreatedAfter: the query orders by createdAt ascending
CreatedAfterAsc(store, i, j) ==
    \/ store[i].createdAt < store[j].createdAt
    \/ store[i].createdAt = store[j].createdAt /\ i < j

\* orderBy("createdAt","desc"): document i comes before document j
CreatedAfter(store, i, j) ==
    \/ store[i].createdAt > store[j].createdAt
    \/ store[i].createdAt = store[j].createdAt /\ i > j

\* query(where roomId == roomId, where status == "active", orderBy createdAt
\* desc) mapped by doc => ({id: doc.id, ...doc.data()})
ActiveQuery(store, roomId) ==
    LET ids == Matching(store, roomId, "active")
        at(k) == CHOOSE i \in ids :
                     Cardinality({j \in ids : CreatedAfter(store, j, i)}) = k - 1
    IN  [k \in 1..Cardinality(ids) |-> [id |-> at(k), data |-> store[at(k)]]]

NoList == [by |-> "none", roomId |-> "", docs |-> <<>>]

\* getReviews: the result of getDocs on the query
getReviews(roomId) ==
    /\ listed' = [by |-> "getReviews", roomId |-> roomId,
                  docs |-> ActiveQuery(reviews, roomId)]
    /\ UNCHANGED <<pageReviews, editId, selectedReviewers>>
    /\ UNCHANGED <<reviewVars, roomVars, createVars, mentionVars, clientVars>>

\* query(roomId == slug, status == "active"): the documents of a snapshot
ActiveReviews(slug) ==
    [i \in Matching(reviews, slug, "active") |-> reviews[i]]

\* RoomPage: onSnapshot(q, snapshot => setReviews(...)).  A ReviewItem whose
\* review left the list is unmounted and loses its editor state.
onSnapshot ==
    /\ pageReviews # ActiveReviews(PageSlug)
    /\ pageReviews' = ActiveReviews(PageSlug)
    /\ listed' = [by |-> "onSnapshot", roomId |-> PageSlug,
                  docs |-> ActiveQuery(reviews, PageSlug)]
    /\ IF editId \in DOMAIN ActiveReviews(PageSlug)
       THEN UNCHANGED <<editId, selectedReviewers>>
       ELSE editId' = 0 /\ selectedReviewers' = <<>>
    /\ UNCHANGED <<reviewVars, roomVars, createVars, mentionVars, clientVars>>

RECURSIVE SetOrder(_)
\* new Set(list): the distinct elements in the order of their first occurrence
SetOrder(list) ==
    IF list = <<>> THEN <<>>
    ELSE LET init == SetOrder(SubSeq(list, 1, Len(list) - 1))
             last == list[Len(list)]
         IN  IF last \in Range(init) THEN init ELSE Append(init, last)

handleStartEditReviewers(id) ==
    /\ id \in DOMAIN pageReviews
    /\ editId = 0
    /\ editId' = id
    /\ selectedReviewers' =
           SetOrder([i \in 1..Len(pageReviews[id].assignees) |->
                        pageReviews[id].assignees[i].email])
    /\ UNCHANGED <<pageReviews, listed, reviewVars, roomVars, createVars, mentionVars, clientVars>>

handleCancelEditReviewers ==
    /\ editId # 0
    /\ editId' = 0
    /\ selectedReviewers' = <<>>
    /\ UNCHANGED <<pageReviews, listed, reviewVars, roomVars, createVars, mentionVars, clientVars>>

handleToggleReviewer(email) ==
    /\ editId # 0
    /\ selectedReviewers' =
           IF email \in Range(selectedReviewers)
           THEN FilterSeq(selectedReviewers, Range(selectedReviewers) \ {email})
           ELSE Append(selectedReviewers, email)
    /\ UNCHANGED <<pageReviews, editId, listed, reviewVars, roomVars, createVars, mentionVars, clientVars>>

\* mutant of newAssignees: every selected reviewer starts over as pending
newAssigneesAllPending(selected, existing) ==
    [i \in 1..Len(selected) |-> [email |-> selected[i], status |-> "pending"]]

\* Array.from(selectedReviewers).map(email =>
\*     ({email, status: existingAssigneesMap.get(email) || "pending"}))
newAssignees(selected, existing) ==
    [i \in 1..Len(selected) |->
        [email |-> selected[i],
         status |-> IF selected[i] \in AssigneeEmails(existing)
                    THEN StatusOf(existing, selected[i])
                    ELSE "pending"]]

\* handleSaveReviewers: the list is built from the `review` prop, then
\* written by updateReviewAssignees; a thrown error is caught and alerted,
\* leaving the editor open.
handleSaveReviewers ==
    /\ editId # 0
    /\ WriteAssignees("handleSaveReviewers", editId,
                      newAssignees(selectedReviewers, pageReviews[editId].assignees))
    /\ IF Exists(editId)
       THEN editId' = 0 /\ selectedReviewers' = <<>>
       ELSE UNCHANGED <<editId, selectedReviewers>>
    /\ UNCHANGED <<pageReviews, listed, roomVars, createVars, mentionVars, clientVars>>

----------------------------------------------------------------------------
(* src/lib/db.ts: rooms; src/app/page.tsx: handleCreateRoom;               *)
(* src/components/RoomSettings.tsx: the allowed-users editor.              *)
(* A missing googleChatUserId (undefined) is the empty string.             *)

RoomSlugs == {"team-a"}
Users == {"a@x.com", "b@x.com"}                 \* signed-in emails
TypedEmails == {"a@x.com", "A@x.com", "b@x.com"} \* emails as typed or listed
UserIds == {"", "u1"}

\* String.prototype.toLowerCase on the strings of the model
ToLower(s) == IF s = "A@x.com" THEN "a@x.com" ELSE s

\* String.prototype.trim on the strings of the model
Trim(s) == CASE s = " b@x.com" -> "b@x.com"
             [] s = " " -> ""
             [] OTHER -> s

\* String.prototype.includes("@") on the strings of the model
IncludesAt(s) == s \notin {"bogus", "", " "}

\* cleanAllowedUsers: googleChatUserId is kept only when it is not blank
cleanAllowedUsers(users) ==
    [i \in 1..Len(users) |->
        [email |-> users[i].email,
         googleChatUserId |-> IF Trim(users[i].googleChatUserId) # ""
                              THEN users[i].googleChatUserId ELSE ""]]

\* extractAllowedUserEmails
extractAllowedUserEmails(users) ==
    [i \in 1..Len(users) |-> ToLower(users[i].email)]

\* the document createRoom passes to setDoc
RoomDoc(data) ==
    [slug |-> data.slug, name |-> data.name,
     webhookUrl |-> data.webhookUrl,
     allowedUsers |-> cleanAllowedUsers(data.allowedUsers),
     allowedUserEmails |-> extractAllowedUserEmails(data.allowedUsers),
     createdBy |-> data.createdBy,
     createdAt |-> serverTimestamp]

\* createRoom with no other call between its getDoc and its setDoc
createRoom(data) ==
    IF data.slug \in DOMAIN rooms
    THEN /\ call' = Called("createRoom", 0, data.slug, "AlreadyExists", 0)
         /\ UNCHANGED <<rooms, now>>
    ELSE /\ rooms' = rooms @@ (data.slug :> RoomDoc(data))
         /\ now' = serverTimestamp
         /\ call' = Called("createRoom", 0, data.slug, "ok", 0)

\* createRoom up to its first await: getDoc, and the throw when the
\* snapshot exists; otherwise the call goes on to its setDoc
createRoomGetDoc(client, data) ==
    /\ client \notin DOMAIN creating
    /\ IF data.slug \in DOMAIN rooms
       THEN /\ call' = Called("createRoom", 0, data.slug, "AlreadyExists", 0)
            /\ UNCHANGED creating
       ELSE /\ creating' = creating @@ (client :> data)
            /\ UNCHANGED call
    /\ UNCHANGED <<reviews, now, nextId, purged, itemVars, roomVars, mentionVars, clientVars>>

\* createRoom from its second await: setDoc(roomRef, {...}) writes the whole
\* document, over any document stored under the slug since the getDoc
createRoomSetDoc(client) ==
    /\ client \in DOMAIN creating
    /\ LET data == creating[client]
       IN  /\ rooms' = [s \in DOMAIN rooms \cup {data.slug} |->
                           IF s = data.slug THEN RoomDoc(data) ELSE rooms[s]]
           /\ call' = Called("createRoom", 0, data.slug, "ok", 0)
    /\ now' = serverTimestamp
    /\ creating' = [c \in DOMAIN creating \ {client} |-> creating[c]]
    /\ UNCHANGED <<reviews, nextId, purged, itemVars, room, allowedUsers, user, mentionVars, clientVars>>

\* updateRoom with updates = {name, webhookUrl, allowedUsers}
updateRoom(slug, updates) ==
    IF slug \notin DOMAIN rooms
    THEN /\ call' = Called("updateRoom", 0, slug, "NotFound", 0)
         /\ UNCHANGED rooms
    ELSE /\ rooms' = [rooms EXCEPT
                ![slug].name = updates.name,
                ![slug].webhookUrl = updates.webhookUrl,
                ![slug].allowedUsers = cleanAllowedUsers(updates.allowedUsers),
                ![slug].allowedUserEmails =
                    extractAllowedUserEmails(cleanAllowedUsers(updates.allowedUsers))]
         /\ call' = Called("updateRoom", 0, slug, "ok", 0)

\* Home.handleCreateRoom: the users list is the selected space members (with
\* the user ids of spaceMembers) or else the comma-separated manual input;
\* the creator is pushed when no entry has exactly the creator's email
usersList(selectedMembers, memberId, manual, creator) ==
    LET picked == IF Len(selectedMembers) > 0
                  THEN [i \in 1..Len(selectedMembers) |->
                           [email |-> selectedMembers[i], googleChatUserId |-> memberId]]
                  ELSE [i \in 1..Len(manual) |->
                           [email |-> Trim(manual[i]), googleChatUserId |-> ""]]
    IN  IF \E i \in 1..Len(picked) : picked[i].email = creator
        THEN picked
        ELSE Append(picked, [email |-> creator, googleChatUserId |-> ""])

handleCreateRoom(slug, creator, selectedMembers, memberId, manual) ==
    /\ createRoom([slug |-> slug, name |-> "Team", webhookUrl |-> "",
                   allowedUsers |-> usersList(selectedMembers, memberId, manual, creator),
                   createdBy |-> creator])
    /\ UNCHANGED <<reviews, nextId, purged, itemVars, createVars, mentionVars, clientVars, room, allowedUsers, user>>

\* mutant of isAllowed: every signed-in user passes
isAllowedAnyone(roomData, u) == TRUE

\* roomData.allowedUsers.some(u => u.email === user.email)
\*     || roomData.createdBy === user.email
isAllowed(roomData, u) ==
    \/ \E i \in 1..Len(roomData.allowedUsers) : roomData.allowedUsers[i].email = u
    \/ roomData.createdBy = u

NotFoundError == "Room not found"
DeniedError == "You are not allowed in this room"

\* RoomPage.fetchRoom of a page just mounted for the signed-in user u:
\* getRoom, the access check, then setRoom and the subscription to the
\* room's active reviews; RoomSettings mounts with allowedUsers =
\* room.allowedUsers.  Without a room or without access only the error is set.
fetchRoom(slug, u) ==
    /\ room = <<>>
    /\ pageError = ""
    /\ user' = u
    /\ IF slug \notin DOMAIN rooms
       THEN /\ pageError' = NotFoundError
            /\ UNCHANGED <<room, allowedUsers, subscription>>
       ELSE IF ~isAllowed(rooms[slug], u)
       THEN /\ pageError' = DeniedError
            /\ UNCHANGED <<room, allowedUsers, subscription>>
       ELSE /\ room' = <<rooms[slug]>>
            /\ allowedUsers' = rooms[slug].allowedUsers
            /\ subscription' = slug
            /\ UNCHANGED pageError
    /\ UNCHANGED <<reviewVars, itemVars, createVars, mentionVars, notifyVars,
                   inflight, rooms>>

\* the client leaves the page: the page's state is gone, and the listener
\* of a page that was left feeds no page
leaveRoom ==
    /\ room # <<>> \/ pageError # ""
    /\ room' = <<>>
    /\ allowedUsers' = <<>>
    /\ user' = ""
    /\ pageError' = ""
    /\ subscription' = ""
    /\ pageReviews' = <<>>
    /\ editId' = 0
    /\ selectedReviewers' = <<>>
    /\ UNCHANGED <<reviewVars, listed, createVars, mentionVars, notifyVars,
                   inflight, rooms>>

\* the first index of an entry whose lower-cased email is email, or 0
\* (findIndex gives -1)
findIndexLower(users, email) ==
    LET idx == {i \in 1..Len(users) : ToLower(users[i].email) = email}
    IN  IF idx = {} THEN 0 ELSE CHOOSE i \in idx : \A j \in idx : i <= j

handleAddUser(newUserEmail, newUserGoogleChatId) ==
    /\ room # <<>>
    /\ Trim(newUserEmail) # ""
    /\ LET email == ToLower(Trim(newUserEmail))
           existingUserIndex == findIndexLower(allowedUsers, email)
       IN  allowedUsers' =
               IF existingUserIndex # 0
               THEN [allowedUsers EXCEPT ![existingUserIndex].googleChatUserId =
                                             Trim(newUserGoogleChatId)]
               ELSE Append(allowedUsers,
                           [email |-> email, googleChatUserId |-> Trim(newUserGoogleChatId)])
    /\ UNCHANGED <<reviewVars, itemVars, createVars, mentionVars, clientVars, rooms, room, user>>

handleSaveUserId(email, editingUserIdValue) ==
    /\ room # <<>>
    /\ allowedUsers' =
           [i \in 1..Len(allowedUsers) |->
               IF allowedUsers[i].email = email
               THEN [allowedUsers[i] EXCEPT !.googleChatUserId = Trim(editingUserIdValue)]
               ELSE allowedUsers[i]]
    /\ UNCHANGED <<reviewVars, itemVars, createVars, mentionVars, clientVars, rooms, room, user>>

handleRemoveUser(email) ==
    /\ room # <<>>
    /\ allowedUsers' =
           IF email = room[1].createdBy
           THEN allowedUsers
           ELSE FilterSeq(allowedUsers, {u \in Range(allowedUsers) : u.email # email})
    /\ UNCHANGED <<reviewVars, itemVars, createVars, mentionVars, clientVars, rooms, room, user>>

\* Map.prototype.set on a Map kept as the sequence of its entries in
\* insertion order: an existing key keeps its place
MapSet(map, key, value) ==
    IF \E i \in 1..Len(map) : map[i].key = key
    THEN [i \in 1..Len(map) |-> IF map[i].key = key
                                THEN [key |-> key, value |-> value] ELSE map[i]]
    ELSE Append(map, [key |-> key, value |-> value])

MapHas(map, key) == \E i \in 1..Len(map) : map[i].key = key

\* Map.prototype.get(key)?.googleChatUserId
MapGetId(map, key) ==
    IF MapHas(map, key)
    THEN (CHOOSE e \in Range(map) : e.key = key).value.googleChatUserId
    ELSE ""

RECURSIVE ExistingUsersMap(_)
\* allowedUsers.forEach(user => updatedUsers.set(user.email.toLowerCase(), {...user}))
ExistingUsersMap(users) ==
    IF users = <<>> THEN <<>>
    ELSE MapSet(ExistingUsersMap(SubSeq(users, 1, Len(users) - 1)),
                ToLower(users[Len(users)].email), users[Len(users)])

RECURSIVE UpsertLines(_, _)
\* lines.forEach: a line without "@" in its first part is counted as an error
\* and skipped; otherwise the entry keyed by the lower-cased email is set to
\* the email as typed, with the line's user id or else the entry's old one
UpsertLines(map, lines) ==
    IF lines = <<>> THEN map
    ELSE LET done == UpsertLines(map, SubSeq(lines, 1, Len(lines) - 1))
             line == lines[Len(lines)]
             emailLower == ToLower(line.email)
         IN  IF ~IncludesAt(emailLower) THEN done
             ELSE MapSet(done, emailLower,
                         [email |-> line.email,
                          googleChatUserId |-> IF line.userId # "" THEN line.userId
                                               ELSE MapGetId(done, emailLower)])

\* "Ensure ... is always included": the email is added under its lower-cased
\* key when the Map has no such key
EnsureIncluded(map, email, users) ==
    IF email = "" \/ MapHas(map, ToLower(email)) THEN map
    ELSE LET i == findIndexLower(users, ToLower(email))
         IN  MapSet(map, ToLower(email),
                    [email |-> email,
                     googleChatUserId |-> IF i = 0 THEN "" ELSE users[i].googleChatUserId])

\* Array.from(updatedUsers.values())
finalUsers(users, lines, createdBy, userEmail) ==
    LET map == EnsureIncluded(
                   EnsureIncluded(UpsertLines(ExistingUsersMap(users), lines),
                                  createdBy, users),
                   userEmail, users)
    IN  [i \in 1..Len(map) |-> map[i].value]

\* handleBulkUpsert over the non-blank lines of bulkInput, each split into
\* the email and the user id ("" when the line has one part)
handleBulkUpsert(lines) ==
    /\ room # <<>>
    /\ allowedUsers' = IF lines = <<>> THEN allowedUsers
                       ELSE finalUsers(allowedUsers, lines, room[1].createdBy, user)
    /\ UNCHANGED <<reviewVars, itemVars, createVars, mentionVars, clientVars, rooms, room, user>>

handleCancel ==
    /\ room # <<>>
    /\ allowedUsers' = room[1].allowedUsers
    /\ UNCHANGED <<reviewVars, itemVars, createVars, mentionVars, clientVars, rooms, room, user>>

\* handleSave: updateRoom(room.slug, {name, webhookUrl, allowedUsers}), then
\* onUpdate reloads the room prop; a thrown error is alerted
handleSave ==
    /\ room # <<>>
    /\ updateRoom(room[1].slug, [name |-> room[1].name,
                                 webhookUrl |-> room[1].webhookUrl,
                                 allowedUsers |-> allowedUsers])
    /\ room' = IF room[1].slug \in DOMAIN rooms THEN <<rooms'[room[1].slug]>> ELSE room
    /\ UNCHANGED <<reviews, now, nextId, purged, itemVars, createVars, mentionVars, clientVars, allowedUsers, user>>

----------------------------------------------------------------------------
(* lib/googleChat.ts: extractSpaceName, fetchGoogleChatMembers and          *)
(* formatMentions with its module-level cache.  A Map<string, string> is a  *)
(* function from its keys; null and undefined strings are "".  A string     *)
(* built from pieces is the sequence of its pieces.                         *)

MaxEmails == 2          \* emails in one formatMentions call
MaxMentionCalls == 2    \* formatMentions calls in one run

(* Program constant: CACHE_DURATION, in milliseconds *)
CACHE_DURATION == 300000

UrlS1 == "https://chat.googleapis.com/v1/spaces/S1/messages?key=k1"
UrlS2 == "https://chat.googleapis.com/v1/spaces/S2/messages?key=k1"
\* the webhook URLs of the rooms that notify: one that new URL rejects and
\* those of two spaces
WebhookUrls == {"not a url", UrlS1, UrlS2}

\* extractSpaceName on the URLs of the model: the path part after "spaces",
\* null when new URL throws or the path has no such part
extractSpaceName(webhookUrl) ==
    CASE webhookUrl = UrlS1 -> "S1"
      [] webhookUrl = UrlS2 -> "S2"
      [] OTHER -> ""

\* membership.member.name.split('/').pop() on the names of the model
LastPart(name) ==
    CASE name = "users/g1" -> "g1"
      [] name = "users/g2" -> "g2"
      [] OTHER -> ""

\* new Map([...a, ...b]): the entries of b win
MapMerge(a, b) == b @@ a

RECURSIVE DirectoryIds(_)
\* allowedUsers.forEach(user => { if (user.email && user.googleChatUserId)
\*     emailToUserIdMap.set(user.email.toLowerCase(), user.googleChatUserId) })
DirectoryIds(users) ==
    IF users = <<>> THEN <<>>
    ELSE LET init == DirectoryIds(SubSeq(users, 1, Len(users) - 1))
             u == users[Len(users)]
         IN  IF u.email # "" /\ u.googleChatUserId # ""
             THEN (ToLower(u.email) :> u.googleChatUserId) @@ init
             ELSE init

RECURSIVE MembersMap(_)
\* data.memberships.forEach: email and name present and a non-empty last
\* part of the name
MembersMap(memberships) ==
    IF memberships = <<>> THEN <<>>
    ELSE LET init == MembersMap(SubSeq(memberships, 1, Len(memberships) - 1))
             m == memberships[Len(memberships)]
         IN  IF m.email # "" /\ m.name # "" /\ LastPart(m.name) # ""
             THEN (ToLower(m.email) :> LastPart(m.name)) @@ init
             ELSE init

\* what the POST to /api/google-chat/members can bring: a rejected fetch, a
\* response that is not ok, a body that is not JSON, or a member list
FailedKinds == {"networkError", "notOk", "badJson"}

Memberships ==
    {<<>>,
     <<[email |-> "A@x.com", name |-> "users/g1"]>>,
     <<[email |-> "A@x.com", name |-> "users/g1"],
       [email |-> "b@x.com", name |-> "users/g2"]>>}

\* only a response that arrived has a body
Responses ==
    [kind : {"networkError", "badJson"}, memberships : {<<>>}]
        \cup [kind : {"notOk"}, memberships : {<<>>, <<[email |-> "A@x.com", name |-> "users/g1"]>>}]
        \cup [kind : {"ok"}, memberships : Memberships]

\* mutant of fetchGoogleChatMembers: response.ok is not tested
fetchGoogleChatMembersUnchecked(webhookUrl, response) ==
    IF extractSpaceName(webhookUrl) = "" THEN <<>>
    ELSE IF response.kind \in {"networkError", "badJson"} THEN <<>>
    ELSE MembersMap(response.memberships)

\* fetchGoogleChatMembers: the empty Map without a space name, on a response
\* that is not ok and on any thrown error
fetchGoogleChatMembers(webhookUrl, response) ==
    IF extractSpaceName(webhookUrl) = "" THEN <<>>
    ELSE IF response.kind \in FailedKinds THEN <<>>
    ELSE MembersMap(response.memberships)

\* mutant of NeedsLookup: the lookup does not depend on the directory
NeedsLookupAlways(webhookUrl, map) == webhookUrl # ""

\* if (webhookUrl && emailToUserIdMap.size === 0)
NeedsLookup(webhookUrl, map) == webhookUrl # "" /\ DOMAIN map = {}

\* cacheExpiry.get(cacheKey) || 0
Expiry(cacheKey) == IF cacheKey \in DOMAIN cacheExpiry THEN cacheExpiry[cacheKey] ELSE 0

\* mutant of CacheFresh: the entry is still used at its expiry time
CacheFreshInclusive(cacheKey, t) ==
    cacheKey \in DOMAIN userCache /\ t <= Expiry(cacheKey)

\* if (cached && Date.now() < expiry)
CacheFresh(cacheKey, t) ==
    cacheKey \in DOMAIN userCache /\ t < Expiry(cacheKey)

\* `<users/${ref}>`
Token(ref) == <<"<users/", ref, ">">>

\* email => emailToUserIdMap.get(email.toLowerCase()) ? token of the id
\*                                                    : token of the email
MentionOf(email, map) ==
    IF ToLower(email) \in DOMAIN map /\ map[ToLower(email)] # ""
    THEN Token(map[ToLower(email)])
    ELSE Token(email)

RECURSIVE JoinNoSpace(_)
\* mutant of Join: the tokens are joined without a separator
JoinNoSpace(tokens) ==
    IF tokens = <<>> THEN <<>>
    ELSE tokens[1] \o JoinNoSpace(Tail(tokens))

RECURSIVE Join(_)
\* Array.prototype.join(' ')
Join(tokens) ==
    IF tokens = <<>> THEN <<>>
    ELSE IF Len(tokens) = 1 THEN tokens[1]
    ELSE tokens[1] \o <<" ">> \o Join(Tail(tokens))

\* the string formatMentions returns
MentionText(emails, emailToUserIdMap) ==
    Join([i \in 1..Len(emails) |-> MentionOf(emails[i], emailToUserIdMap)])

\* formatMentions up to its return or, when the members have to be fetched,
\* up to its await; one call at a time
formatMentionsCall(emails, users, webhookUrl) ==
    LET directory == DirectoryIds(users)
        spaceName == extractSpaceName(webhookUrl)
        lookup == NeedsLookup(webhookUrl, directory) /\ spaceName # ""
        hit == lookup /\ CacheFresh(spaceName, clock)
        emailToUserIdMap ==
            IF hit THEN MapMerge(directory, userCache[spaceName]) ELSE directory
    IN  /\ mention.fetch # "pending"
        /\ mention.n < MaxMentionCalls
        /\ mention' =
               [n |-> mention.n + 1, emails |-> emails, allowedUsers |-> users,
                webhookUrl |-> webhookUrl, at |-> clock,
                fetch |-> IF lookup /\ ~hit THEN "pending" ELSE "none",
                cache |-> IF hit THEN "used" ELSE "unused",
                out |-> IF lookup /\ ~hit THEN <<>>
                        ELSE MentionText(emails, emailToUserIdMap)]
        /\ UNCHANGED <<userCache, cacheExpiry, storedAt, clock>>
        /\ UNCHANGED <<reviewVars, itemVars, roomVars, createVars, clientVars>>

\* formatMentions after await fetchGoogleChatMembers(...): a map with entries
\* is cached under the space name with the expiry Date.now() + CACHE_DURATION
formatMentionsFetched(response) ==
    LET directory == DirectoryIds(mention.allowedUsers)
        spaceName == extractSpaceName(mention.webhookUrl)
        fetchedMap == fetchGoogleChatMembers(mention.webhookUrl, response)
        storing == DOMAIN fetchedMap # {}
        emailToUserIdMap ==
            IF storing THEN MapMerge(directory, fetchedMap) ELSE directory
    IN  /\ mention.fetch = "pending"
        /\ userCache' = IF storing
                        THEN (spaceName :> fetchedMap) @@ userCache
                        ELSE userCache
        /\ cacheExpiry' = IF storing
                          THEN (spaceName :> (clock + CACHE_DURATION)) @@ cacheExpiry
                          ELSE cacheExpiry
        /\ storedAt' = IF storing THEN (spaceName :> clock) @@ storedAt ELSE storedAt
        /\ mention' = [mention EXCEPT
               !.fetch = response.kind,
               !.out = MentionText(mention.emails, emailToUserIdMap)]
        /\ UNCHANGED clock
        /\ UNCHANGED <<reviewVars, itemVars, roomVars, createVars, clientVars>>

\* time passes on the client
Tick(ms) ==
    /\ clock' = clock + ms
    /\ UNCHANGED <<userCache, cacheExpiry, storedAt, mention>>
    /\ UNCHANGED <<reviewVars, itemVars, roomVars, createVars, clientVars>>

NoMention ==
    [n |-> 0, emails |-> <<>>, allowedUsers |-> <<>>, webhookUrl |-> "",
     at |-> 0, fetch |-> "none", cache |-> "unused", out |-> <<>>]

----------------------------------------------------------------------------
(* Notification dispatch: sendGoogleChatNotification of lib/googleChat.ts  *)
(* and the /api/notify route it posts to.  A fetch either rejects (a       *)
(* network error) or resolves with a response of some status.              *)

\* a webhook URL that starts with "http" and that new URL rejects
UrlNoHost == "http://"

\* webhookUrl.startsWith("http") on the URLs of the model
StartsWithHttp(webhookUrl) == webhookUrl \in {UrlS1, UrlS2, UrlNoHost}

\* new URL(webhookUrl) returns on the URLs of the model and throws on the others
ParsesAsUrl(webhookUrl) == webhookUrl \in {UrlS1, UrlS2}

ReplyOption == "REPLY_MESSAGE_FALLBACK_TO_NEW_THREAD"

\* response.ok
Ok(status) == status \in 200..299

\* what the POST to the webhook can bring
Upstreams ==
    {[kind |-> "networkError", status |-> 0, text |-> ""],
     [kind |-> "response", status |-> 200, text |-> "{}"],
     [kind |-> "response", status |-> 299, text |-> "{}"],
     [kind |-> "response", status |-> 300, text |-> "moved"],
     [kind |-> "response", status |-> 404, text |-> "no such space"]}

\* the JSON bodies a request to the route can carry; "" is an absent field
Requests ==
    [webhookUrl : {"", "not a url", UrlNoHost, UrlS1, UrlS2},
     text : {"", "Review Done"}, threadKey : {"", "r1", "r2"}]

Reply(status, keys, error, details) ==
    [status |-> status, keys |-> keys, error |-> error, details |-> details]

\* mutant of POST: the upstream response is not tested
POSTUnchecked(request, up) ==
    IF request.webhookUrl = "" \/ request.text = ""
    THEN [upstream |-> <<>>,
          reply |-> Reply(400, {"error"}, "Missing webhookUrl or text", "")]
    ELSE IF ~ParsesAsUrl(request.webhookUrl)
    THEN [upstream |-> <<>>,
          reply |-> Reply(500, {"error"}, "Internal Server Error", "")]
    ELSE LET sent == [url |-> request.webhookUrl,
                      messageReplyOption |-> ReplyOption,
                      text |-> request.text,
                      thread |-> IF request.threadKey # ""
                                 THEN <<request.threadKey>> ELSE <<>>]
         IN  [upstream |-> <<sent>>,
              reply |-> IF up.kind = "networkError"
                        THEN Reply(500, {"error"}, "Internal Server Error", "")
                        ELSE Reply(200, {"success"}, "", "")]

\* the route handler POST of /api/notify: the request it sends upstream (at
\* most one) and its reply.  thread is the optional field of the body.
POST(request, up) ==
    IF request.webhookUrl = "" \/ request.text = ""
    THEN [upstream |-> <<>>,
          reply |-> Reply(400, {"error"}, "Missing webhookUrl or text", "")]
    ELSE IF ~ParsesAsUrl(request.webhookUrl)
    THEN [upstream |-> <<>>,
          reply |-> Reply(500, {"error"}, "Internal Server Error", "")]
    ELSE LET sent == [url |-> request.webhookUrl,
                      messageReplyOption |-> ReplyOption,
                      text |-> request.text,
                      thread |-> IF request.threadKey # ""
                                 THEN <<request.threadKey>> ELSE <<>>]
         IN  [upstream |-> <<sent>>,
              reply |-> IF up.kind = "networkError"
                        THEN Reply(500, {"error"}, "Internal Server Error", "")
                        ELSE IF ~Ok(up.status)
                        THEN Reply(up.status, {"error", "details"},
                                   "Google Chat API error", up.text)
                        ELSE Reply(200, {"success"}, "", "")]

NoRoute ==
    [request |-> [webhookUrl |-> "", text |-> "", threadKey |-> ""],
     up |-> [kind |-> "none", status |-> 0, text |-> ""],
     upstream |-> <<>>, reply |-> Reply(0, {}, "", "")]

\* the route serves one request
Served(request, up) ==
    [request |-> request, up |-> up,
     upstream |-> POST(request, up).upstream, reply |-> POST(request, up).reply]

\* what the client's fetch("/api/notify") can bring: a rejected fetch, or
\* the route's reply to the request after its upstream POST
Deliveries ==
    {[kind |-> "networkError", up |-> [kind |-> "none", status |-> 0, text |-> ""]]}
        \cup [kind : {"served"}, up : Upstreams]

\* mutant of sendGoogleChatNotification: no try/catch around the fetch
sendGoogleChatNotificationUncaught(webhookUrl, message, delivery) ==
    IF webhookUrl = "" \/ ~StartsWithHttp(webhookUrl)
    THEN [fetches |-> <<>>, raised |-> FALSE]
    ELSE [fetches |-> <<[webhookUrl |-> webhookUrl, text |-> message,
                         threadKey |-> ""]>>,
          raised |-> delivery.kind = "networkError"]

\* sendGoogleChatNotification: the requests it makes to /api/notify and
\* whether it throws.  The response is not read; every error is caught.
sendGoogleChatNotification(webhookUrl, message, delivery) ==
    IF webhookUrl = "" \/ ~StartsWithHttp(webhookUrl)
    THEN [fetches |-> <<>>, raised |-> FALSE]
    ELSE [fetches |-> <<[webhookUrl |-> webhookUrl, text |-> message,
                         threadKey |-> ""]>>,
          raised |-> FALSE]

NoNotify ==
    [n |-> 0, handler |-> "none", id |-> 0, webhookUrl |-> "",
     delivery |-> "none", db |-> "none", fetches |-> <<>>, raised |-> FALSE]

\* the notifying part of a handler (its db call, if any, returned): nothing without
\* a webhook URL, else the message is composed and sent
Notified(handler, id, webhookUrl, message, delivery) ==
    LET sent == IF webhookUrl = "" THEN [fetches |-> <<>>, raised |-> FALSE]
                ELSE sendGoogleChatNotification(webhookUrl, message, delivery)
    IN  /\ notify' = [n |-> notify.n + 1, handler |-> handler, id |-> id,
                      webhookUrl |-> webhookUrl, delivery |-> delivery.kind,
                      db |-> "ok", fetches |-> sent.fetches,
                      raised |-> sent.raised]
        /\ IF sent.fetches # <<>> /\ delivery.kind = "served"
           THEN route' = Served(sent.fetches[1], delivery.up)
           ELSE UNCHANGED route

\* the db call of a handler threw: the finally block runs and the error
\* leaves the handler, nothing is sent
Thrown(handler, id, webhookUrl) ==
    /\ notify' = [n |-> notify.n + 1, handler |-> handler, id |-> id,
                  webhookUrl |-> webhookUrl, delivery |-> "none",
                  db |-> "threw", fetches |-> <<>>, raised |-> TRUE]
    /\ UNCHANGED route

\* ReviewItem.handleMarkDone in a room with the given webhookUrl
handleMarkDone(id, webhookUrl, delivery) ==
    /\ updateReviewStatusCall(id, "done")
    /\ IF Exists(id)
       THEN Notified("handleMarkDone", id, webhookUrl, "Review Done", delivery)
       ELSE Thrown("handleMarkDone", id, webhookUrl)
    /\ UNCHANGED <<itemVars, createVars, mentionVars, roomVars, ping,
                   accessVars, inflight>>

\* ReviewItem: reviewers.length > 0, on the review the component was given
hasReviewers(review) ==
    \E i \in 1..Len(review.assignees) : review.assignees[i].status = "reviewed"

\* ReviewItem.handleMarkUpdated of a component given `review` (what its
\* page last received for the id): without a reviewed assignee in it the
\* handler alerts and returns, else markReviewAsUpdated and the notification
handleMarkUpdated(id, review, webhookUrl, delivery) ==
    /\ IF ~hasReviewers(review)
       THEN /\ notify' = [n |-> notify.n + 1, handler |-> "handleMarkUpdated",
                          id |-> id, webhookUrl |-> webhookUrl,
                          delivery |-> "none", db |-> "none",
                          fetches |-> <<>>, raised |-> FALSE]
            /\ UNCHANGED <<reviewVars, route>>
       ELSE /\ markReviewAsUpdatedCall(id)
            /\ Notified("handleMarkUpdated", id, webhookUrl, "Review Updated",
                        delivery)
    /\ UNCHANGED <<itemVars, createVars, mentionVars, roomVars, ping,
                   accessVars, inflight>>

\* a request made to the route by any client
PostNotify(request, up) ==
    /\ route' = Served(request, up)
    /\ UNCHANGED <<reviewVars, itemVars, createVars, mentionVars, roomVars,
                   notify, ping, accessVars, inflight>>

----------------------------------------------------------------------------
(* The stuck flags of handlePing (ReviewItem) and of generateReviewSummary  *)
(* (lib/utils.ts).  Times are milliseconds, as Date.getTime() gives them.   *)

OneDay == 24 * 60 * 60 * 1000
ThreeDays == 3 * 24 * 60 * 60 * 1000

\* a timestamp field that is null (a write the server has not confirmed)
NoTimestamp == 0

\* handlePing: if (review.updatedAt) { if (updatedAt <= oneDayAgo) ... }
PingStuckUpdate(review, t) ==
    review.updatedAt # NoTimestamp /\ review.updatedAt <= t - OneDay

\* handlePing: if (review.createdAt) { if (createdAt <= threeDaysAgo) ... }
PingStuckCreated(review, t) ==
    review.createdAt # NoTimestamp /\ review.createdAt <= t - ThreeDays

\* handlePing's stuckInfo, in the order of its pushes
stuckInfo(review, t) ==
    (IF PingStuckUpdate(review, t) THEN <<"since last update">> ELSE <<>>)
        \o (IF PingStuckCreated(review, t) THEN <<"since created">> ELSE <<>>)

\* mutant of isStuckUpdate: the boundary is exclusive
isStuckUpdateStrict(review, t) ==
    review.updatedAt # NoTimestamp /\ review.updatedAt < t - OneDay

\* generateReviewSummary: updatedAt && updatedAt <= oneDayAgo
isStuckUpdate(review, t) ==
    review.updatedAt # NoTimestamp /\ review.updatedAt <= t - OneDay

\* generateReviewSummary: createdAt && createdAt <= threeDaysAgo
isStuckCreated(review, t) ==
    review.createdAt # NoTimestamp /\ review.createdAt <= t - ThreeDays

\* generateReviewSummary's timeParts of one review: the created part, then
\* the updated part
timeParts(review, t) ==
    (IF isStuckCreated(review, t) THEN <<"since created">>
     ELSE IF review.createdAt # NoTimestamp
     THEN IF review.createdAt <= t - ThreeDays
          THEN <<"created overdue">> ELSE <<"created">>
     ELSE <<>>)
        \o (IF isStuckUpdate(review, t) THEN <<"since last update">>
            ELSE IF review.updatedAt # NoTimestamp
            THEN IF review.updatedAt <= t - OneDay
                 THEN <<"updated overdue">> ELSE <<"updated">>
            ELSE <<>>)

NoPing == [kind |-> "none", at |-> 0, flags |-> <<>>]

Flagged(review, labels) ==
    [createdAt |-> review.createdAt, updatedAt |-> review.updatedAt,
     labels |-> labels]

\* ReviewItem.handlePing of a review of the page, at the client's time
handlePing(id, webhookUrl, delivery) ==
    /\ webhookUrl # ""
    /\ id \in DOMAIN pageReviews
    /\ ping' = [kind |-> "ping", at |-> clock,
                flags |-> (id :> Flagged(pageReviews[id],
                                         stuckInfo(pageReviews[id], clock)))]
    /\ Notified("handlePing", id, webhookUrl, "Ping", delivery)
    /\ UNCHANGED <<reviewVars, itemVars, createVars, mentionVars, roomVars,
                   accessVars, inflight>>

\* the summary button of RoomPage: generateReviewSummary on the page's
\* reviews (no review, no flag), then the dispatch
SendSummary(webhookUrl, delivery) ==
    /\ ping' = [kind |-> "summary", at |-> clock,
                flags |-> [id \in DOMAIN pageReviews |->
                              Flagged(pageReviews[id],
                                      timeParts(pageReviews[id], clock))]]
    /\ Notified("SendSummary", 0, webhookUrl, "Review List Summary", delivery)
    /\ UNCHANGED <<reviewVars, itemVars, createVars, mentionVars, roomVars,
                   accessVars, inflight>>

----------------------------------------------------------------------------
(* Specifications *)

\* a write needs server time left in the run; a call on a missing id writes nothing
CanCall(id) == Exists(id) => now < MaxClock

NoRoomClient ==
    /\ rooms = <<>>
    /\ room = <<>>
    /\ allowedUsers = <<>>
    /\ user = ""

\* no createRoom call in flight; the notifying client's module just loaded
Idle ==
    /\ creating = <<>>
    /\ userCache = <<>>
    /\ cacheExpiry = <<>>
    /\ storedAt = <<>>
    /\ clock = 1
    /\ mention = NoMention
    /\ notify = NoNotify
    /\ route = NoRoute
    /\ ping = NoPing
    /\ pageError = ""
    /\ subscription = ""
    /\ inflight = <<>>

Init ==
    /\ reviews = <<>>
    /\ now = 0
    /\ nextId = 1
    /\ purged = {}
    /\ call = NoCall
    /\ pageReviews = <<>>
    /\ editId = 0
    /\ selectedReviewers = <<>>
    /\ listed = NoList
    /\ NoRoomClient
    /\ Idle

\* AddReviewForm of the page's room
SubmitReview ==
    /\ now < MaxClock
    /\ \E u \in Emails, m \in UniqueSeqs(Emails, MaxMentions) :
           handleSubmit(PageSlug, u, m)

\* The Lifecycle Manager operations, called one after the other on stored reviews
Next ==
    \/ SubmitReview
    \/ \E id \in DOMAIN reviews, s \in TerminalStatus :
           CanCall(id) /\ updateReviewStatus(id, s)
    \/ \E id \in DOMAIN reviews : CanCall(id) /\ markReviewAsUpdated(id)
    \/ \E id \in DOMAIN reviews, e \in Emails : CanCall(id) /\ markAsReviewed(id, e)
    \/ \E id \in DOMAIN reviews, e \in Emails : CanCall(id) /\ markAsApproved(id, e)
    \/ \E id \in DOMAIN reviews, e \in Emails : CanCall(id) /\ removeReviewer(id, e)
    \/ \E id \in DOMAIN reviews, a \in AssigneeLists :
           CanCall(id) /\ updateReviewAssignees(id, a)

Spec == Init /\ [][Next]_vars

\* The same operations addressed to ids that name no stored review
MissingIds == AddressableIds \ DOMAIN reviews

NextMissing ==
    \/ SubmitReview
    \/ \E id \in MissingIds, s \in TerminalStatus : updateReviewStatus(id, s)
    \/ \E id \in MissingIds : markReviewAsUpdated(id)
    \/ \E id \in MissingIds, e \in Emails : markAsReviewed(id, e)
    \/ \E id \in MissingIds, e \in Emails : markAsApproved(id, e)
    \/ \E id \in MissingIds, e \in Emails : removeReviewer(id, e)
    \/ \E id \in MissingIds, a \in AssigneeLists : updateReviewAssignees(id, a)

SpecMissing == Init /\ [][NextMissing]_vars

\* One client editing the reviewers of a review of its page while other
\* clients mark the review as reviewed or close it
NextEdit ==
    \/ SubmitReview
    \/ onSnapshot
    \/ \E id \in DOMAIN pageReviews : handleStartEditReviewers(id)
    \/ \E e \in Emails : handleToggleReviewer(e)
    \/ handleCancelEditReviewers
    \/ CanCall(editId) /\ handleSaveReviewers
    \/ \E id \in DOMAIN reviews, e \in Emails : CanCall(id) /\ markAsReviewed(id, e)
    \/ \E id \in DOMAIN reviews, s \in TerminalStatus :
           CanCall(id) /\ updateReviewStatus(id, s)

SpecEdit == Init /\ [][NextEdit]_vars

----------------------------------------------------------------------------
(* The terminal-state queues.  The store is persistent: a run starts from   *)
(* the store earlier runs left.  Here that is MaxQueueReviews reviews       *)
(* created one after the other, the first QueueCap - 1 of them in room      *)
(* team-a then moved, in order, to one terminal status.                     *)

SeedTerminal == QueueCap - 1

SeedReview(i, status, lastRoom) ==
    [roomId |-> IF i = MaxQueueReviews THEN lastRoom ELSE "team-a",
     title |-> "PR1", link |-> "http://x/1",
     status |-> IF i <= SeedTerminal THEN status ELSE "active",
     createdBy |-> "a@x.com",
     assignees |-> <<>>, reviewedBy |-> <<>>, approvedBy |-> <<>>,
     createdAt |-> i,
     updatedAt |-> IF i <= SeedTerminal THEN MaxQueueReviews + i ELSE i]

InitQueue ==
    /\ \E status \in TerminalStatus, lastRoom \in Slugs :
           reviews = [i \in 1..MaxQueueReviews |-> SeedReview(i, status, lastRoom)]
    /\ now = MaxQueueReviews + SeedTerminal
    /\ nextId = MaxQueueReviews + 1
    /\ purged = {}
    /\ call = NoCall
    /\ pageReviews = <<>>
    /\ editId = 0
    /\ selectedReviewers = <<>>
    /\ listed = NoList
    /\ NoRoomClient
    /\ Idle

QueueClockEnd == MaxQueueReviews + SeedTerminal + MaxQueueCalls

\* a sequence of updateReviewStatus calls, each completed before the next
NextQueue ==
    \E id \in 1..MaxQueueReviews, s \in TerminalStatus :
        /\ Exists(id) => now < QueueClockEnd
        /\ updateReviewStatus(id, s)

SpecQueue == InitQueue /\ [][NextQueue]_vars

\* the purged documents that had the given room and status
Gone(roomId, status) == {p \in purged : p.roomId = roomId /\ p.status = status}

BulkLines ==
    UNION {[1..k -> [email : {"A@x.com", "b@x.com", "bogus"}, userId : UserIds]] :
              k \in 0..MaxBulkLines}

ManualInputs == UNION {[1..k -> {"A@x.com", "b@x.com", " b@x.com"}] : k \in 0..MaxManual}

NextRoom ==
    \/ \E slug \in RoomSlugs, creator \in Users, manual \in ManualInputs :
           room = <<>> /\ handleCreateRoom(slug, creator, <<>>, "", manual)
    \/ \E slug \in RoomSlugs, creator \in Users, id \in UserIds,
          members \in UniqueSeqs(TypedEmails, MaxManual) \ {<<>>} :
           room = <<>> /\ handleCreateRoom(slug, creator, members, id, <<>>)
    \/ \E slug \in RoomSlugs \cap DOMAIN rooms, u \in Users :
           isAllowed(rooms[slug], u) /\ fetchRoom(slug, u)
    \/ leaveRoom
    \/ \E e \in {"A@x.com", " b@x.com", " "}, id \in {"u1", " "} :
           handleAddUser(e, id)
    \/ \E i \in 1..Len(allowedUsers), id \in UserIds :
           handleSaveUserId(allowedUsers[i].email, id)
    \/ \E i \in 1..Len(allowedUsers) : handleRemoveUser(allowedUsers[i].email)
    \/ \E lines \in BulkLines : handleBulkUpsert(lines)
    \/ handleCancel
    \/ handleSave

SpecRoom == Init /\ [][NextRoom]_vars

----------------------------------------------------------------------------
(* Two browser clients creating rooms at the same time: the awaited getDoc  *)
(* and setDoc of the calls interleave                                       *)

Clients == {"c1", "c2"}

\* Home.handleCreateRoom: the argument of createRoom
RoomData(slug, creator, selectedMembers, memberId, manual) ==
    [slug |-> slug, name |-> "Team", webhookUrl |-> "",
     allowedUsers |-> usersList(selectedMembers, memberId, manual, creator),
     createdBy |-> creator]

NextCreate ==
    \/ \E client \in Clients, slug \in Slugs, creator \in Users, manual \in ManualInputs :
           createRoomGetDoc(client, RoomData(slug, creator, <<>>, "", manual))
    \/ \E client \in Clients : now < MaxClock /\ createRoomSetDoc(client)

SpecCreate == Init /\ [][NextCreate]_vars

----------------------------------------------------------------------------
(* One client sending notifications: a sequence of formatMentions calls    *)

EmailLists == UNION {[1..k -> {"A@x.com", "b@x.com"}] : k \in 0..MaxEmails}

Directories ==
    {<<>>,
     <<[email |-> "a@x.com", googleChatUserId |-> ""],
       [email |-> "b@x.com", googleChatUserId |-> "u2"]>>,
     <<[email |-> "a@x.com", googleChatUserId |-> "u1"],
       [email |-> "b@x.com", googleChatUserId |-> "u2"]>>}

\* the run ends at two cache lifetimes
ClockEnd == 2 * CACHE_DURATION

NextMention ==
    \/ \E emails \in EmailLists, users \in Directories, url \in WebhookUrls :
           formatMentionsCall(emails, users, url)
    \/ \E response \in Responses : formatMentionsFetched(response)
    \/ \E ms \in {CACHE_DURATION - 1, CACHE_DURATION} :
           clock + ms <= ClockEnd /\ Tick(ms)

SpecMention == Init /\ [][NextMention]_vars

----------------------------------------------------------------------------
(* Listing the active reviews.  The store a run starts from holds           *)
(* MaxListReviews active reviews, created one after the other in any of     *)
(* the rooms.                                                               *)

MaxListReviews == 3    \* reviews stored at the start of SpecList
MaxListCalls == 2      \* writes in one run of SpecList

ListReview(i, roomId) ==
    [roomId |-> roomId, title |-> "PR1", link |-> "http://x/1",
     status |-> "active", createdBy |-> "a@x.com",
     assignees |-> <<>>, reviewedBy |-> <<>>, approvedBy |-> <<>>,
     createdAt |-> i, updatedAt |-> i]

InitList ==
    /\ \E r \in [1..MaxListReviews -> Slugs] :
           reviews = [i \in 1..MaxListReviews |-> ListReview(i, r[i])]
    /\ now = MaxListReviews
    /\ nextId = MaxListReviews + 1
    /\ purged = {}
    /\ call = NoCall
    /\ pageReviews = <<>>
    /\ editId = 0
    /\ selectedReviewers = <<>>
    /\ listed = NoList
    /\ NoRoomClient
    /\ Idle

ListClockEnd == MaxListReviews + MaxListCalls

NextList ==
    \/ \E id \in DOMAIN reviews, s \in TerminalStatus :
           now < ListClockEnd /\ updateReviewStatus(id, s)
    \/ \E id \in DOMAIN reviews : now < ListClockEnd /\ markReviewAsUpdated(id)
    \/ \E roomId \in Slugs : getReviews(roomId)
    \/ onSnapshot

SpecList == InitList /\ [][NextList]_vars

----------------------------------------------------------------------------
(* Claims about the review operations *)

LifecycleOps == {"updateReviewStatus", "markReviewAsUpdated", "markAsReviewed",
                 "markAsApproved", "updateReviewAssignees", "removeReviewer"}

\* the step is a completed db call that wrote (every write advances the clock)
Wrote(op) == call'.op = op /\ now' # now

\* the emails of an assignee list in list order
EmailSeq(assignees) == [i \in 1..Len(assignees) |-> assignees[i].email]

\* C2: once a review is done it stays done and once it is deleted it stays
\* deleted: no step changes the status of a review that is done or deleted,
\* or removes such a review.
C2_TerminalStatusStays ==
    [][\A id \in DOMAIN reviews :
          reviews[id].status \in TerminalStatus =>
              /\ id \in DOMAIN reviews'
              /\ reviews'[id].status = reviews[id].status]_vars

\* C3: every assignee status is pending or reviewed in every state, and a
\* markReviewAsUpdated call on a stored review leaves every assignee pending
\* and the assignee emails as they were.
C3_MarkUpdatedResets ==
    /\ [](\A id \in DOMAIN reviews : \A i \in 1..Len(reviews[id].assignees) :
             reviews[id].assignees[i].status \in AssigneeStatus)
    /\ [][Wrote("markReviewAsUpdated") =>
             /\ \A i \in 1..Len(reviews'[call'.id].assignees) :
                    reviews'[call'.id].assignees[i].status = "pending"
             /\ EmailSeq(reviews'[call'.id].assignees)
                    = EmailSeq(reviews[call'.id].assignees)]_vars

\* C3 witness: markReviewAsUpdated has run on a review with two assignees of
\* which one had marked it reviewed
C3_Witness ==
    /\ call.op = "markReviewAsUpdated"
    /\ call.out = "ok"
    /\ Len(reviews[call.id].assignees) = 2
    /\ \E i \in 1..2 : reviews[call.id].assignees[i].email \in Range(reviews[call.id].reviewedBy)

\* a review with its updatedAt blanked
SansUpdatedAt(doc) == [doc EXCEPT !.updatedAt = 0]

\* C4: a markAsReviewed call that repeats the call just made (same review,
\* same email) leaves the review as the first call left it, except for
\* updatedAt, and the email occurs once in reviewedBy.
C4_MarkReviewedIdempotent ==
    [][(Wrote("markAsReviewed") /\ call'.again /\ call.out = "ok") =>
          /\ SansUpdatedAt(reviews'[call'.id]) = SansUpdatedAt(reviews[call'.id])
          /\ reviews'[call'.id].updatedAt = now'
          /\ Cardinality({i \in 1..Len(reviews'[call'.id].reviewedBy) :
                 reviews'[call'.id].reviewedBy[i] = call'.arg}) = 1]_vars

\* C4 witness: an assignee has called markAsReviewed twice in a row
C4_Witness ==
    /\ call.op = "markAsReviewed"
    /\ call.out = "ok"
    /\ call.again
    /\ call.arg \in AssigneeEmails(reviews[call.id].assignees)

\* the step is a successful save of the reviewer editor
Saved == Wrote("handleSaveReviewers") /\ call'.out = "ok"

\* C5 as stated: a save keeps, for every email both in the list stored just
\* before the write and in the new list, the stored status, and gives every
\* other email of the new list the status pending.
C5_SaveKeepsStoredStatus ==
    [][Saved =>
          /\ EmailSeq(reviews'[editId].assignees) = selectedReviewers
          /\ \A i \in 1..Len(reviews'[editId].assignees) :
                LET a == reviews'[editId].assignees[i]
                IN  a.status = IF a.email \in AssigneeEmails(reviews[editId].assignees)
                               THEN StatusOf(reviews[editId].assignees, a.email)
                               ELSE "pending"]_vars

\* C5 amended: a save stores the selected emails, each with the status it has
\* in the editor's copy of the review (the `review` prop at the time of the
\* save) and pending when that copy does not list it.
C5_SaveKeepsSnapshotStatus ==
    [][Saved =>
          /\ EmailSeq(reviews'[editId].assignees) = selectedReviewers
          /\ \A i \in 1..Len(reviews'[editId].assignees) :
                LET a == reviews'[editId].assignees[i]
                IN  a.status = IF a.email \in AssigneeEmails(pageReviews[editId].assignees)
                               THEN StatusOf(pageReviews[editId].assignees, a.email)
                               ELSE "pending"]_vars

\* C5 witness: a save has stored a reviewed assignee next to a pending one
C5_Witness ==
    /\ call.op = "handleSaveReviewers"
    /\ call.out = "ok"
    /\ \E i, j \in 1..Len(reviews[call.id].assignees) :
          /\ reviews[call.id].assignees[i].status = "reviewed"
          /\ reviews[call.id].assignees[j].status = "pending"

\* C6: markAsReviewed with an email that is not an assignee changes updatedAt
\* and nothing else of the review.
C6_NonAssigneeOnlyTouches ==
    [][(Wrote("markAsReviewed")
            /\ call'.arg \notin AssigneeEmails(reviews[call'.id].assignees)) =>
          reviews'[call'.id] = [reviews[call'.id] EXCEPT !.updatedAt = now']]_vars

\* C7: a Lifecycle Manager call addressed to an id that names no stored
\* review fails with NotFound and writes nothing.
C7_MissingIdIsNotFound ==
    [][(call'.op \in LifecycleOps /\ call'.id \notin DOMAIN reviews) =>
          /\ call'.out = "NotFound"
          /\ reviews' = reviews
          /\ purged' = purged]_vars

\* the index in list of the k-th entry whose email is not email
KthOther(list, email, k) ==
    CHOOSE i \in 1..Len(list) :
        /\ list[i].email # email
        /\ Cardinality({j \in 1..i : list[j].email # email}) = k

\* C8: removeReviewer on a stored review stores the assignee list without the
\* entries of that email, the other entries unchanged and in order, and
\* returns true exactly when the stored list is then empty.
C8_RemoveReviewer ==
    [][Wrote("removeReviewer") =>
          LET before == reviews[call'.id].assignees
              after == reviews'[call'.id].assignees
              others == {i \in 1..Len(before) : before[i].email # call'.arg}
          IN  /\ Len(after) = Cardinality(others)
              /\ \A k \in 1..Len(after) : after[k] = before[KthOther(before, call'.arg, k)]
              /\ call'.out \in {"true", "false"}
              /\ call'.out = "true" <=> Len(after) = 0]_vars

\* C8 witness: removeReviewer has returned false, leaving one reviewed assignee
C8_Witness ==
    /\ call.op = "removeReviewer"
    /\ call.out = "false"
    /\ Len(reviews[call.id].assignees) = 1
    /\ reviews[call.id].assignees[1].email # call.arg
    /\ reviews[call.id].assignees[1].status = "reviewed"

----------------------------------------------------------------------------
(* Claims about rooms *)

\* some entry of users has the given email, letter case aside
ListsEmail(users, email) ==
    \E i \in 1..Len(users) : ToLower(users[i].email) = ToLower(email)

\* C9: after an updateRoom call the stored allowedUsers of the room has an
\* entry with the email of its createdBy (compared without regard to letter
\* case, the reading most favourable to the claim).
C9_UpdateRoomKeepsCreator ==
    (call.op = "updateRoom" /\ call.out = "ok") =>
        ListsEmail(rooms[call.arg].allowedUsers, rooms[call.arg].createdBy)

\* C10: whatever edit actions came before it, a handleSave stores an
\* allowedUsers list with an entry whose lower-cased email is the lower-cased
\* room.createdBy.
C10_SaveKeepsCreator ==
    [][(room # <<>> /\ call'.op = "updateRoom" /\ call'.out = "ok"
            /\ rooms' # rooms) =>
          \E i \in 1..Len(rooms'[room[1].slug].allowedUsers) :
              ToLower(rooms'[room[1].slug].allowedUsers[i].email)
                  = ToLower(room[1].createdBy)]_vars

\* C11: a createRoom call on a slug that names a room fails and leaves the
\* rooms as they are; a createRoom call succeeds only on a slug that names
\* no room at the time of its write (so at most one call per slug succeeds);
\* and the createdBy and createdAt of a stored room never change.
C11_CreateRoomOnce ==
    [][/\ \A s \in DOMAIN rooms :
             /\ s \in DOMAIN rooms'
             /\ rooms'[s].createdBy = rooms[s].createdBy
             /\ rooms'[s].createdAt = rooms[s].createdAt
       /\ (call'.op = "createRoom" /\ call'.out = "ok" /\ now' # now) =>
             call'.arg \notin DOMAIN rooms
       /\ (call'.op = "createRoom" /\ call'.out = "AlreadyExists") =>
             rooms' = rooms]_vars

\* C12: in every stored room no two entries of allowedUsers have the same
\* lower-cased email.
C12_AllowedUsersUnique ==
    \A s \in DOMAIN rooms :
        \A i, j \in 1..Len(rooms[s].allowedUsers) :
            i # j => ToLower(rooms[s].allowedUsers[i].email)
                         # ToLower(rooms[s].allowedUsers[j].email)

\* C13: a result of getReviews(roomId) or of the room page's live query
\* lists each stored review of that room with status active once, with its
\* stored content, in descending order of createdAt, and nothing else; the
\* page's reviews are the listed ones; and a review that is done or deleted
\* is never active again, so no later result lists it.
C13_ActiveReviewsListed ==
    [][/\ listed' # listed =>
             LET docs == listed'.docs
             IN  /\ {docs[k].id : k \in 1..Len(docs)}
                        = Matching(reviews', listed'.roomId, "active")
                 /\ Len(docs) = Cardinality(Matching(reviews', listed'.roomId, "active"))
                 /\ \A k \in 1..Len(docs) : docs[k].data = reviews'[docs[k].id]
                 /\ \A k, l \in 1..Len(docs) :
                        k < l => docs[k].data.createdAt > docs[l].data.createdAt
                 /\ listed'.by = "onSnapshot" =>
                        DOMAIN pageReviews' = {docs[k].id : k \in 1..Len(docs)}
       /\ \A id \in DOMAIN reviews :
             (reviews[id].status \in TerminalStatus /\ id \in DOMAIN reviews') =>
                 reviews'[id].status \in TerminalStatus]_vars

\* C13 witness: getReviews has listed two reviews of a room in which a third
\* one is done, the first listed being the one written to least recently
C13_Witness ==
    /\ listed.by = "getReviews"
    /\ Len(listed.docs) = 2
    /\ listed.docs[1].data.updatedAt < listed.docs[2].data.updatedAt
    /\ \E id \in DOMAIN reviews :
          /\ reviews[id].roomId = listed.roomId
          /\ reviews[id].status = "done"

\* C14: the review addReview creates (called by AddReviewForm.handleSubmit)
\* is a new document with status active, every assignee pending, in the
\* order of the mentions, empty reviewedBy and approvedBy, and createdAt and
\* updatedAt both equal to the server time of the write.
C14_NewReviewIsActivePending ==
    [][(call'.op = "addReview" /\ nextId' # nextId) =>
          LET id == call'.id
          IN  /\ id \notin DOMAIN reviews
              /\ id \in DOMAIN reviews'
              /\ reviews'[id].status = "active"
              /\ \A i \in 1..Len(reviews'[id].assignees) :
                     reviews'[id].assignees[i].status = "pending"
              /\ reviews'[id].reviewedBy = <<>>
              /\ reviews'[id].approvedBy = <<>>
              /\ now' > now
              /\ reviews'[id].createdAt = now'
              /\ reviews'[id].updatedAt = now'
              /\ \A other \in DOMAIN reviews : reviews'[other] = reviews[other]]_vars

\* C14 witness: addReview has just stored a review with two assignees
C14_Witness ==
    /\ call.op = "addReview"
    /\ call.id \in DOMAIN reviews
    /\ Len(reviews[call.id].assignees) = 2
    /\ reviews[call.id].createdAt = now

\* C15: a Lifecycle Manager call that writes a review stores the server time
\* of the write, later than every earlier write, as its updatedAt; no step
\* decreases the updatedAt of a stored review or changes its createdAt,
\* roomId or createdBy.
C15_UpdatedAtAdvances ==
    [][/\ \A op \in LifecycleOps :
             (Wrote(op) /\ call'.id \in DOMAIN reviews') =>
                 /\ now' > now
                 /\ reviews'[call'.id].updatedAt = now'
                 /\ reviews'[call'.id].updatedAt > reviews[call'.id].updatedAt
       /\ \A id \in DOMAIN reviews \cap DOMAIN reviews' :
             /\ reviews'[id].updatedAt >= reviews[id].updatedAt
             /\ reviews'[id].createdAt = reviews[id].createdAt
             /\ reviews'[id].roomId = reviews[id].roomId
             /\ reviews'[id].createdBy = reviews[id].createdBy]_vars

\* C15 witness: an assignee list change was the second write to a review
\* after its creation
C15_Witness ==
    /\ call.op = "updateReviewAssignees"
    /\ call.out = "ok"
    /\ reviews[call.id].updatedAt = now
    /\ reviews[call.id].updatedAt = reviews[call.id].createdAt + 2

----------------------------------------------------------------------------
(* Claims about formatMentions *)

\* a formatMentions call has returned
Returned == mention.n > 0 /\ mention.fetch # "pending"

\* the i-th token of the returned string, the tokens being three pieces long
\* and one piece apart
OutToken(i) == SubSeq(mention.out, 4 * i - 3, 4 * i - 1)

\* the directory's explicit googleChatUserId for the email, "" without one
ExplicitId(users, email) ==
    LET idx == {i \in 1..Len(users) :
                    /\ ToLower(users[i].email) = ToLower(email)
                    /\ users[i].googleChatUserId # ""}
    IN  IF idx = {} THEN ""
        ELSE users[CHOOSE i \in idx : \A j \in idx : j <= i].googleChatUserId

\* the id the returned call could take for the email from the member map of
\* the webhook's space: the map that was cached and not expired when the call
\* was made, or the one the call fetched; "" without one
MemberId(email) ==
    LET space == extractSpaceName(mention.webhookUrl)
    IN  IF /\ space # ""
           /\ space \in DOMAIN userCache
           /\ mention.at < cacheExpiry[space]
           /\ ToLower(email) \in DOMAIN userCache[space]
        THEN userCache[space][ToLower(email)]
        ELSE ""

\* C16: every input email gets the token of its explicit directory id if it
\* has one, else the token of its id in the unexpired cached or freshly
\* fetched member map if it has one there, else the token of the email.
C16_BestAvailableToken ==
    Returned =>
        \A i \in 1..Len(mention.emails) :
            LET email == mention.emails[i]
            IN  OutToken(i) =
                    IF ExplicitId(mention.allowedUsers, email) # ""
                    THEN <<"<users/", ExplicitId(mention.allowedUsers, email), ">">>
                    ELSE IF MemberId(email) # ""
                    THEN <<"<users/", MemberId(email), ">">>
                    ELSE <<"<users/", email, ">">>

\* the directory carries an explicit id for every input email of the call
AllExplicit(m) ==
    \A i \in 1..Len(m.emails) : ExplicitId(m.allowedUsers, m.emails[i]) # ""

\* some directory entry carries an explicit id
SomeExplicit(m) ==
    \E i \in 1..Len(m.allowedUsers) :
        m.allowedUsers[i].email # "" /\ m.allowedUsers[i].googleChatUserId # ""

\* the call m made no fetch, used no cache entry and returned one token per
\* email, that of the email's directory id
FromDirectoryOnly(m) ==
    /\ m.fetch = "none"
    /\ m.cache = "unused"
    /\ Len(m.out) = IF Len(m.emails) = 0 THEN 0 ELSE 4 * Len(m.emails) - 1
    /\ \A i \in 1..Len(m.emails) :
           SubSeq(m.out, 4 * i - 3, 4 * i - 1)
               = <<"<users/", ExplicitId(m.allowedUsers, m.emails[i]), ">">>

\* C17 as stated: a call whose directory carries an explicit id for every
\* input email makes no fetch, returns the string the emails and the
\* directory determine, whatever the cache holds, and no step of it changes
\* the cache or its expiry.
C17_CacheIndependent ==
    /\ []((mention.n > 0 /\ AllExplicit(mention)) => FromDirectoryOnly(mention))
    /\ [][(mention' # mention /\ AllExplicit(mention')) =>
             UNCHANGED <<userCache, cacheExpiry>>]_vars

\* C17 amended: the same for a call whose directory carries an explicit id
\* for every input email and for at least one entry, as it does whenever the
\* input list is not empty.
C17_CacheIndependentWithIds ==
    /\ []((mention.n > 0 /\ AllExplicit(mention) /\ SomeExplicit(mention)) =>
             FromDirectoryOnly(mention))
    /\ [][(mention' # mention /\ AllExplicit(mention') /\ SomeExplicit(mention')) =>
             UNCHANGED <<userCache, cacheExpiry>>]_vars

\* C17 witness: a call with an id in the directory for both of its emails
\* has returned while the cache held an unexpired entry for its space with
\* another id for one of them
C17_Witness ==
    /\ Returned
    /\ Len(mention.emails) = 2
    /\ AllExplicit(mention)
    /\ \E i \in 1..2 :
          /\ MemberId(mention.emails[i]) # ""
          /\ MemberId(mention.emails[i]) # ExplicitId(mention.allowedUsers, mention.emails[i])

\* what the token of an email may refer to: the email itself, or an id the
\* directory or a cached member map holds for it
RefsFor(email) ==
    ({email, ExplicitId(mention.allowedUsers, email)}
        \cup {userCache[s][ToLower(email)] :
                 s \in {c \in DOMAIN userCache : ToLower(email) \in DOMAIN userCache[c]}})
        \ {""}

\* C18: the returned string is one token "<users/...>" per input email, the
\* i-th token referring to the i-th email, with one space between
\* neighbouring tokens and nothing else; equal emails get equal tokens, each
\* its own; the empty list gives the empty string.
C18_OneTokenPerEmail ==
    Returned =>
        LET n == Len(mention.emails)
        IN  /\ Len(mention.out) = IF n = 0 THEN 0 ELSE 4 * n - 1
            /\ \A i \in 1..n :
                  /\ mention.out[4 * i - 3] = "<users/"
                  /\ mention.out[4 * i - 2] \in RefsFor(mention.emails[i])
                  /\ mention.out[4 * i - 1] = ">"
                  /\ i < n => mention.out[4 * i] = " "
            /\ \A i, j \in 1..n :
                  mention.emails[i] = mention.emails[j] => OutToken(i) = OutToken(j)

\* C18 witness: a call with the same email twice has returned two tokens
C18_Witness ==
    /\ Returned
    /\ Len(mention.emails) = 2
    /\ mention.emails[1] = mention.emails[2]
    /\ Len(mention.out) = 7

\* the call m returned, for every email without an explicit directory id,
\* the token of the email as given
EmailTokens(m) ==
    /\ Len(m.out) = IF Len(m.emails) = 0 THEN 0 ELSE 4 * Len(m.emails) - 1
    /\ \A i \in 1..Len(m.emails) :
           ExplicitId(m.allowedUsers, m.emails[i]) = "" =>
               SubSeq(m.out, 4 * i - 3, 4 * i - 1) = <<"<users/", m.emails[i], ">">>

\* C19: when the member fetch of a call fails (rejected fetch, response not
\* ok, body not JSON) the call returns with the email token for every email
\* without a directory id and the cache and its expiry stay as they were;
\* a call with a webhook URL that cannot be parsed returns at once in the
\* same way.
C19_FailedFetchFallsBack ==
    [][/\ (mention.fetch = "pending" /\ mention'.fetch \in FailedKinds) =>
             /\ EmailTokens(mention')
             /\ UNCHANGED <<userCache, cacheExpiry>>
       /\ (mention'.n # mention.n /\ mention'.webhookUrl = "not a url") =>
             /\ mention'.fetch = "none"
             /\ EmailTokens(mention')
             /\ UNCHANGED <<userCache, cacheExpiry>>]_vars

\* C19 witness: a fetch has failed for a call with two emails whose space
\* has an expired cache entry with an id for one of them
C19_Witness ==
    /\ mention.fetch \in FailedKinds
    /\ Len(mention.emails) = 2
    /\ LET space == extractSpaceName(mention.webhookUrl)
       IN  /\ space \in DOMAIN userCache
           /\ cacheExpiry[space] <= mention.at
           /\ \E i \in 1..2 : ToLower(mention.emails[i]) \in DOMAIN userCache[space]

FiveMinutes == 5 * 60 * 1000

\* the call m returned, for every email, the token of its id in the member
\* map members, or else of the email
MemberTokens(m, members) ==
    /\ Len(m.out) = IF Len(m.emails) = 0 THEN 0 ELSE 4 * Len(m.emails) - 1
    /\ \A i \in 1..Len(m.emails) :
           SubSeq(m.out, 4 * i - 3, 4 * i - 1) =
               <<"<users/",
                 IF ToLower(m.emails[i]) \in DOMAIN members
                 THEN members[ToLower(m.emails[i])] ELSE m.emails[i],
                 ">">>

\* C20: a call with a directory without ids and a webhook URL of a space
\* uses the member map stored for that space, without a fetch, when it is
\* made less than five minutes after the map was stored; when no map is
\* stored for that space, or the stored one is five minutes old or older,
\* the call uses no stored map and starts a fetch.
C20_CacheLivesFiveMinutes ==
    [][(/\ mention'.n # mention.n
        /\ ~SomeExplicit(mention')
        /\ extractSpaceName(mention'.webhookUrl) # "") =>
          LET space == extractSpaceName(mention'.webhookUrl)
          IN  IF space \in DOMAIN storedAt /\ clock < storedAt[space] + FiveMinutes
              THEN /\ mention'.cache = "used"
                   /\ mention'.fetch = "none"
                   /\ MemberTokens(mention', userCache[space])
              ELSE /\ mention'.cache = "unused"
                   /\ mention'.fetch = "pending"]_vars

\* C20 witness: a call made one millisecond before the five minutes were over
\* has used the stored map of its space and returned an id from it
C20_Witness ==
    /\ Returned
    /\ mention.cache = "used"
    /\ Len(mention.emails) > 0
    /\ LET space == extractSpaceName(mention.webhookUrl)
       IN  /\ space \in DOMAIN storedAt
           /\ mention.at = storedAt[space] + FiveMinutes - 1
           /\ ToLower(mention.emails[1]) \in DOMAIN userCache[space]
           /\ mention.out[2] = userCache[space][ToLower(mention.emails[1])]

----------------------------------------------------------------------------
(* Closing reviews from the ReviewItem of a room that notifies *)

MaxNotifyCalls == 2     \* notifying handlers run in one run of SpecNotify

\* the webhookUrl prop of ReviewItem: the room's setting, any string
RoomWebhookUrls == {"", "not a url", UrlNoHost, UrlS1}

NextNotify ==
    \/ SubmitReview
    \/ \E id \in AddressableIds, w \in RoomWebhookUrls, d \in Deliveries :
           /\ notify.n < MaxNotifyCalls
           /\ CanCall(id)
           /\ handleMarkDone(id, w, d)

SpecNotify == Init /\ [][NextNotify]_vars

\* the requests the /api/notify route is sent, one after the other
NextRoute == \E request \in Requests, up \in Upstreams : PostNotify(request, up)

SpecRoute == Init /\ [][NextRoute]_vars

\* C21: a handler whose db call returned never raises, whatever the
\* dispatch brings (a rejected fetch, a reply of any status); the review is
\* stored as updateReviewStatus wrote it; the handler makes at most one
\* request to the route, which makes at most one POST to the webhook,
\* carrying the composed message.
C21_DispatchFailureIsSwallowed ==
    [][(notify'.n # notify.n /\ notify'.handler = "handleMarkDone"
            /\ notify'.db = "ok") =>
          /\ ~notify'.raised
          /\ notify'.id \in DOMAIN reviews'
          /\ reviews'[notify'.id] =
                 [reviews[notify'.id] EXCEPT !.status = "done",
                                             !.updatedAt = now + 1]
          /\ Len(notify'.fetches) <= 1
          /\ \A i \in 1..Len(notify'.fetches) :
                 /\ notify'.fetches[i].text = "Review Done"
                 /\ notify'.delivery = "served" =>
                        /\ route'.request = notify'.fetches[i]
                        /\ Len(route'.upstream) <= 1
                        /\ \A k \in 1..Len(route'.upstream) :
                               route'.upstream[k].text = "Review Done"]_vars

\* a review marked done whose notification the webhook answered with 404,
\* and one whose request to the route was rejected
C21_Witness ==
    /\ notify.handler = "handleMarkDone"
    /\ notify.db = "ok"
    /\ notify.fetches # <<>>
    /\ ~notify.raised
    /\ notify.id \in DOMAIN reviews
    /\ reviews[notify.id].status = "done"
    /\ \/ notify.delivery = "networkError"
       \/ notify.delivery = "served" /\ route.up.status = 404

\* the request carried both fields
Present(request) == request.webhookUrl # "" /\ request.text # ""

\* the one upstream POST of the claim: to webhookUrl, with the query
\* parameter, the text, and the thread key exactly when one was given
ForwardedOnce(r) ==
    /\ Len(r.upstream) = 1
    /\ r.upstream[1].url = r.request.webhookUrl
    /\ r.upstream[1].messageReplyOption = ReplyOption
    /\ r.upstream[1].text = r.request.text
    /\ r.upstream[1].thread =
           IF r.request.threadKey # "" THEN <<r.request.threadKey>> ELSE <<>>

\* a request missing a field is answered 400 without an upstream request
MissingIsRejected(r) ==
    ~Present(r.request) => r.reply.status = 400 /\ r.upstream = <<>>

\* C22 as stated: with both fields present exactly one upstream POST is
\* made, the reply is {success: true} exactly on an upstream 2xx and
\* otherwise {error, details} with the upstream status; with a field
\* missing the reply is 400 and no upstream request is made.
C22_NotifyRoute ==
    route.up.kind # "none" =>
        /\ Present(route.request) =>
               /\ ForwardedOnce(route)
               /\ route.reply.keys = {"success"} <=>
                      (route.up.kind = "response" /\ Ok(route.up.status))
               /\ route.reply.keys # {"success"} =>
                      /\ route.reply.keys = {"error", "details"}
                      /\ route.reply.status = route.up.status
        /\ MissingIsRejected(route)

\* C22 amended: the claim holds when webhookUrl parses as a URL and the
\* webhook answers; a webhookUrl that new URL rejects is answered 500
\* {error} without an upstream request, and a rejected upstream POST is
\* answered 500 {error} after the one request.
C22_NotifyRouteParsed ==
    route.up.kind # "none" =>
        /\ Present(route.request) /\ ParsesAsUrl(route.request.webhookUrl) =>
               /\ ForwardedOnce(route)
               /\ route.reply.keys = {"success"} <=>
                      (route.up.kind = "response" /\ Ok(route.up.status))
               /\ route.up.kind = "response" /\ ~Ok(route.up.status) =>
                      /\ route.reply.keys = {"error", "details"}
                      /\ route.reply.status = route.up.status
                      /\ route.reply.details = route.up.text
               /\ route.up.kind = "networkError" =>
                      route.reply.keys = {"error"} /\ route.reply.status = 500
        /\ Present(route.request) /\ ~ParsesAsUrl(route.request.webhookUrl) =>
               /\ route.upstream = <<>>
               /\ route.reply.keys = {"error"}
               /\ route.reply.status = 500
        /\ MissingIsRejected(route)

\* a request with a thread key that the webhook answered with 404
C22_Witness ==
    /\ route.up.kind = "response"
    /\ route.up.status = 404
    /\ Present(route.request)
    /\ route.request.threadKey = "r1"
    /\ Len(route.upstream) = 1
    /\ route.reply.status = 404

----------------------------------------------------------------------------
(* Pings and summaries of a page whose reviews grow old *)

MaxPings == 2           \* pings and summaries sent in one run of SpecStuck

\* two reviews created together, the first updated two days later
StuckReview(i) ==
    [roomId |-> PageSlug, title |-> "PR1", link |-> "http://x/1",
     status |-> "active", createdBy |-> "a@x.com",
     assignees |-> <<>>, reviewedBy |-> <<>>, approvedBy |-> <<>>,
     createdAt |-> 1, updatedAt |-> IF i = 1 THEN 1 + 2 * OneDay ELSE 1]

InitStuck ==
    /\ reviews = [i \in 1..2 |-> StuckReview(i)]
    /\ now = 1 + 2 * OneDay
    /\ nextId = 3
    /\ purged = {}
    /\ call = NoCall
    /\ pageReviews = <<>>
    /\ editId = 0
    /\ selectedReviewers = <<>>
    /\ listed = NoList
    /\ NoRoomClient
    /\ Idle

\* the instants around the two thresholds of the reviews
StuckTimes ==
    {1 + OneDay - 1, 1 + OneDay, 1 + OneDay + 1,
     1 + ThreeDays - 1, 1 + ThreeDays, 1 + ThreeDays + 1}

NextStuck ==
    \/ onSnapshot
    \/ \E t \in StuckTimes : t > clock /\ Tick(t - clock)
    \/ \E id \in DOMAIN pageReviews, d \in Deliveries :
           notify.n < MaxPings /\ handlePing(id, UrlS1, d)
    \/ \E w \in {"", UrlS1}, d \in Deliveries :
           notify.n < MaxPings /\ SendSummary(w, d)

SpecStuck == InitStuck /\ [][NextStuck]_vars

----------------------------------------------------------------------------
(* Users opening the page of a room they may or may not enter *)

\* the signed-in users: two of the room, one spelled with a capital, a stranger
Visitors == {"a@x.com", "b@x.com", "A@x.com", "c@x.com"}

\* the page's listener delivers the active reviews of its room
Snapshot ==
    /\ subscription = PageSlug
    /\ onSnapshot

NextAccess ==
    \/ \E slug \in RoomSlugs, creator \in Users, manual \in ManualInputs :
           /\ room = <<>> /\ pageError = ""
           /\ handleCreateRoom(slug, creator, <<>>, "", manual)
    \/ \E slug \in RoomSlugs, u \in Visitors : fetchRoom(slug, u)
    \/ leaveRoom
    \/ \E u \in Emails : nextId <= MaxReviews /\ handleSubmit(PageSlug, u, <<>>)
    \/ Snapshot

SpecAccess == Init /\ [][NextAccess]_vars

\* the user is listed, letter for letter, in the room's allowedUsers or
\* is its creator
Listed(roomData, u) ==
    \/ \E i \in 1..Len(roomData.allowedUsers) : roomData.allowedUsers[i].email = u
    \/ roomData.createdBy = u

AssigneeOps ==
    {"markAsReviewed", "markReviewAsUpdated", "updateReviewAssignees",
     "handleSaveReviewers", "removeReviewer"}

\* C28: a call of markAsReviewed, markReviewAsUpdated, updateReviewAssignees
\* (also from the reviewer editor) or removeReviewer leaves the assignees and the updatedAt of every review
\* whose stored status is done or deleted as they are.
C28_TerminalAssigneesFrozen ==
    [][call'.op \in AssigneeOps =>
          \A id \in DOMAIN reviews \cap DOMAIN reviews' :
              reviews[id].status \in TerminalStatus =>
                  /\ reviews'[id].assignees = reviews[id].assignees
                  /\ reviews'[id].updatedAt = reviews[id].updatedAt]_vars

----------------------------------------------------------------------------
(* Two clients on the page of one room: one acts on what its page last     *)
(* received, the other on a page that is up to date                         *)

MaxUpdatedWrites == 4   \* server writes in one run of SpecUpdated

NextUpdated ==
    \/ SubmitReview
    \/ onSnapshot
    \/ \E id \in DOMAIN reviews, e \in Emails :
           now < MaxUpdatedWrites /\ markAsReviewed(id, e)
    \/ \E id \in DOMAIN pageReviews, w \in {"", UrlS1}, d \in Deliveries :
           /\ notify.n < MaxNotifyCalls
           /\ now < MaxUpdatedWrites
           /\ handleMarkUpdated(id, pageReviews[id], w, d)
    \/ \E id \in DOMAIN ActiveReviews(PageSlug), w \in {"", UrlS1}, d \in Deliveries :
           /\ notify.n < MaxNotifyCalls
           /\ now < MaxUpdatedWrites
           /\ handleMarkUpdated(id, reviews[id], w, d)

SpecUpdated == Init /\ [][NextUpdated]_vars

\* C29: a run of handleMarkUpdated that wrote the review found a reviewed
\* assignee in the stored review; a run whose component shows no reviewed
\* assignee writes nothing and sends nothing.
C29_ResetNeedsReviewer ==
    [][(notify'.n # notify.n /\ notify'.handler = "handleMarkUpdated") =>
          /\ notify'.db = "none" =>
                 /\ reviews' = reviews
                 /\ notify'.fetches = <<>>
                 /\ route' = route
          /\ (notify'.db = "ok" /\ reviews' # reviews) =>
                 hasReviewers(reviews[notify'.id])]_vars

----------------------------------------------------------------------------
(* Concurrent clients.  Each db function awaits getDoc, then updateDoc,    *)
(* then (for a status change) getDocs and the deleteDoc calls of the queue; *)
(* between two awaits of one client the calls of another can run.           *)
(* inflight[c] is the call of client c: where it is and what it has read.   *)

InFlight(op, pc, id, arg, read, toDelete) ==
    [op |-> op, pc |-> pc, id |-> id, arg |-> arg, read |-> read,
     toDelete |-> toDelete]

\* what a call holds before it has read a document
NoDoc == [roomId |-> "", assignees |-> <<>>, reviewedBy |-> <<>>]

Over == {"returned", "threw"}

\* the client has no call running
Free(c) == IF c \in DOMAIN inflight THEN inflight[c].pc \in Over ELSE TRUE

\* no call is running
Quiet == \A c \in DOMAIN inflight : inflight[c].pc \in Over

Set(c, f) == [k \in DOMAIN inflight \cup {c} |-> IF k = c THEN f ELSE inflight[k]]

\* the call of client c is over and forgotten
Forget(c) == [k \in (DOMAIN inflight) \ {c} |-> inflight[k]]

At(c, op, pc) ==
    c \in DOMAIN inflight /\ inflight[c].op = op /\ inflight[c].pc = pc

\* the getDoc of a call: a missing review throws (or, for the two void
\* functions, returns)
GetDoc(c, op, id, arg, missing) ==
    /\ inflight' = Set(c, IF Exists(id)
                          THEN InFlight(op, "updateDoc", id, arg,
                                        [roomId |-> reviews[id].roomId,
                                         assignees |-> reviews[id].assignees,
                                         reviewedBy |-> reviews[id].reviewedBy], {})
                          ELSE InFlight(op, missing, id, arg, NoDoc, {}))
    /\ UNCHANGED <<reviewVars, itemVars, createVars, mentionVars, roomVars,
                   notifyVars, accessVars>>

\* handleApprove: removeReviewer up to its getDoc
removeReviewerGetDoc(c, id, userEmail) ==
    GetDoc(c, "handleApprove", id, userEmail, "threw")

\* removeReviewer from its updateDoc (which throws when the document is
\* gone) to its return; handleApprove goes on to updateReviewStatus when the
\* filtered list was empty
removeReviewerUpdateDoc(c) ==
    /\ At(c, "handleApprove", "updateDoc")
    /\ LET f == inflight[c]
           remaining == filteredAssignees(f.read.assignees, f.arg)
       IN  IF ~Exists(f.id)
           THEN /\ inflight' = Set(c, [f EXCEPT !.pc = "threw"])
                /\ UNCHANGED reviewVars
           ELSE /\ reviews' = [reviews EXCEPT ![f.id].assignees = remaining,
                                              ![f.id].updatedAt = serverTimestamp]
                /\ now' = serverTimestamp
                /\ call' = Called("removeReviewer", f.id, f.arg,
                                  IF Len(remaining) = 0 THEN "true" ELSE "false", 0)
                /\ inflight' = Set(c, [f EXCEPT !.pc = IF Len(remaining) = 0
                                                       THEN "updateReviewStatus"
                                                       ELSE "returned"])
                /\ UNCHANGED <<nextId, purged>>
    /\ UNCHANGED <<itemVars, createVars, mentionVars, roomVars, notifyVars,
                   accessVars>>

\* handleApprove after removeReviewer returned true: updateReviewStatus(id,
\* "done"); the room has no webhook URL, so nothing is sent
handleApproveDone(c) ==
    /\ At(c, "handleApprove", "updateReviewStatus")
    /\ updateReviewStatusCall(inflight[c].id, "done")
    /\ inflight' = Set(c, [inflight[c] EXCEPT
                              !.pc = IF Exists(inflight[c].id)
                                     THEN "returned" ELSE "threw"])
    /\ UNCHANGED <<itemVars, createVars, mentionVars, roomVars, notifyVars,
                   accessVars>>

\* markAsReviewed up to its getDoc
markAsReviewedGetDoc(c, id, userEmail) ==
    GetDoc(c, "markAsReviewed", id, userEmail, "returned")

\* markAsReviewed from its updateDoc: the lists computed from what was read
markAsReviewedUpdateDoc(c) ==
    /\ At(c, "markAsReviewed", "updateDoc")
    /\ LET f == inflight[c]
       IN  IF ~Exists(f.id)
           THEN /\ inflight' = Set(c, [f EXCEPT !.pc = "threw"])
                /\ UNCHANGED reviewVars
           ELSE /\ reviews' = [reviews EXCEPT
                       ![f.id].assignees = updatedAssignees(f.read.assignees, f.arg),
                       ![f.id].reviewedBy = updatedReviewedBy(f.read.reviewedBy, f.arg),
                       ![f.id].updatedAt = serverTimestamp]
                /\ now' = serverTimestamp
                /\ call' = Called("markAsReviewed", f.id, f.arg, "ok", 0)
                /\ inflight' = Set(c, [f EXCEPT !.pc = "returned"])
                /\ UNCHANGED <<nextId, purged>>
    /\ UNCHANGED <<itemVars, createVars, mentionVars, roomVars, notifyVars,
                   accessVars>>

\* updateReviewStatus up to its getDoc
updateReviewStatusGetDoc(c, id, status) ==
    GetDoc(c, "updateReviewStatus", id, status, "threw")

\* updateReviewStatus: updateDoc(reviewRef, {status, updatedAt})
updateReviewStatusUpdateDoc(c) ==
    /\ At(c, "updateReviewStatus", "updateDoc")
    /\ LET f == inflight[c]
       IN  IF ~Exists(f.id)
           THEN /\ inflight' = Forget(c)
                /\ UNCHANGED reviewVars
           ELSE /\ reviews' = [reviews EXCEPT ![f.id].status = f.arg,
                                              ![f.id].updatedAt = serverTimestamp]
                /\ now' = serverTimestamp
                /\ inflight' = Set(c, [f EXCEPT !.pc = "getDocs"])
                /\ UNCHANGED <<nextId, purged, call>>
    /\ UNCHANGED <<itemVars, createVars, mentionVars, roomVars, notifyVars,
                   accessVars>>

\* the getDocs of the queue function of the new status, and its slice
manageQueueGetDocs(c) ==
    /\ At(c, "updateReviewStatus", "getDocs")
    /\ LET f == inflight[c]
           toDelete == IF f.arg = "deleted"
                       THEN manageDeletedReviewsQueue(reviews, f.read.roomId)
                       ELSE manageDoneReviewsQueue(reviews, f.read.roomId)
       IN  inflight' = IF toDelete = {} THEN Forget(c)
                       ELSE Set(c, [f EXCEPT !.toDelete = toDelete,
                                             !.pc = "deleteDoc"])
    /\ UNCHANGED <<reviewVars, itemVars, createVars, mentionVars, roomVars,
                   notifyVars, accessVars>>

\* one deleteDoc of the queue function's Promise.all: the document with
\* that id goes, whatever it holds by now
manageQueueDeleteDoc(c, i) ==
    /\ At(c, "updateReviewStatus", "deleteDoc")
    /\ i \in inflight[c].toDelete
    /\ LET f == inflight[c]
           left == f.toDelete \ {i}
       IN  /\ inflight' = IF left = {} THEN Forget(c)
                          ELSE Set(c, [f EXCEPT !.toDelete = left])
           /\ IF Exists(i)
              THEN /\ reviews' = [k \in (DOMAIN reviews) \ {i} |-> reviews[k]]
                   /\ purged' = purged \cup
                          {[id |-> i, roomId |-> reviews[i].roomId,
                            status |-> reviews[i].status,
                            updatedAt |-> reviews[i].updatedAt]}
              ELSE UNCHANGED <<reviews, purged>>
    /\ UNCHANGED <<now, nextId, call, itemVars, createVars, mentionVars,
                   roomVars, notifyVars, accessVars>>

\* the email of the call of another client
Taken(c, e) == \E k \in DOMAIN inflight : k # c /\ inflight[k].arg = e

\* Assignees approving a review, each from an own client, nothing else
NextApprove ==
    \/ SubmitReview
    \/ \E c \in Clients, id \in DOMAIN reviews, e \in Emails :
           /\ c \notin DOMAIN inflight
           /\ ~Taken(c, e)
           /\ removeReviewerGetDoc(c, id, e)
    \/ \E c \in Clients : removeReviewerUpdateDoc(c)
    \/ \E c \in Clients : handleApproveDone(c)

SpecApprove == Init /\ [][NextApprove]_vars

\* the emails whose handleApprove on the review has returned
Approvers(id) ==
    {inflight[c].arg : c \in {k \in DOMAIN inflight :
                                  /\ inflight[k].op = "handleApprove"
                                  /\ inflight[k].id = id
                                  /\ inflight[k].pc = "returned"}}

\* C25: once no call is running and every assignee the review had has run
\* handleApprove to its end (so every assignee still listed is among those
\* who approved), the review is done.
C25_AllApprovedIsDone ==
    \A id \in DOMAIN reviews :
        (/\ Quiet
         /\ Approvers(id) # {}
         /\ \A i \in 1..Len(reviews[id].assignees) :
                reviews[id].assignees[i].email \in Approvers(id))
            => reviews[id].status = "done"

\* Assignees marking a review as reviewed, each from an own client
NextReviewed ==
    \/ SubmitReview
    \/ \E c \in Clients, id \in DOMAIN reviews, e \in Emails :
           /\ c \notin DOMAIN inflight
           /\ ~Taken(c, e)
           /\ markAsReviewedGetDoc(c, id, e)
    \/ \E c \in Clients : markAsReviewedUpdateDoc(c)

SpecReviewed == Init /\ [][NextReviewed]_vars

\* C27: once no call is running, every assignee whose markAsReviewed call
\* returned has status reviewed in the stored list and is in reviewedBy.
C27_EveryCallerReviewed ==
    Quiet =>
        \A c \in DOMAIN inflight :
            LET f == inflight[c]
            IN  (/\ f.op = "markAsReviewed"
                 /\ f.pc = "returned"
                 /\ f.id \in DOMAIN reviews
                 /\ \E i \in 1..Len(f.read.assignees) :
                        f.read.assignees[i].email = f.arg)
                    => /\ \E i \in 1..Len(reviews[f.id].assignees) :
                              /\ reviews[f.id].assignees[i].email = f.arg
                              /\ reviews[f.id].assignees[i].status = "reviewed"
                       /\ f.arg \in Range(reviews[f.id].reviewedBy)

----------------------------------------------------------------------------
(* Two clients closing reviews of a room whose queue is nearly full, while  *)
(* terminal reviews are written again by clients with old pages             *)

\* the reviews the clients act on: the oldest of the queue and the two
\* created last
RaceIds == {1, MaxQueueReviews - 1, MaxQueueReviews}

NextRace ==
    \/ \E c \in Clients, id \in RaceIds, s \in TerminalStatus :
           /\ Free(c)
           /\ Exists(id)
           /\ now < QueueClockEnd
           /\ updateReviewStatusGetDoc(c, id, s)
    \/ \E c \in Clients : updateReviewStatusUpdateDoc(c)
    \/ \E c \in Clients : manageQueueGetDocs(c)
    \/ \E c \in Clients, i \in 1..MaxQueueReviews : manageQueueDeleteDoc(c, i)
    \/ \E id \in RaceIds :
           /\ Exists(id)
           /\ reviews[id].status \in TerminalStatus
           /\ now < QueueClockEnd
           /\ markAsReviewed(id, "a@x.com")

SpecRace == InitQueue /\ [][NextRace]_vars

Entered(roomId, s) ==
    Cardinality(Matching(reviews, roomId, s)) + Cardinality(Gone(roomId, s))

Min(a, b) == IF a < b THEN a ELSE b

Acted(c) == IF c \in DOMAIN inflight' THEN inflight'[c] # inflight[c] ELSE TRUE

\* C30: a deleteDoc of the queue maintenance of updateReviewStatus(id, s)
\* removes only a review of the room of id whose status is s, and the call
\* never picks the review it has just written.
C30_DeletesOnlyOwnQueue ==
    [][/\ \A c \in DOMAIN inflight :
              (inflight[c].pc = "deleteDoc" /\ Acted(c)) =>
                  \A p \in purged' \ purged :
                      /\ p.status = inflight[c].arg
                      /\ p.roomId = inflight[c].read.roomId
       /\ \A c \in DOMAIN inflight' :
              inflight'[c].pc = "deleteDoc" =>
                  inflight'[c].id \notin inflight'[c].toDelete]_vars

====
